---- MODULE Spec2Model ----
(***************************************************************************)
(* The sketch search policy of the auto-scheduler                          *)
(* (sketch_search_policy.cc): the outer loop SketchSearchPolicyNode::Search *)
(* with SearchOneRound and PickStatesWithEpsGreedy, and the init-population *)
(* sampling SampleInitPopulation with InitFillTileSize.                     *)
(*                                                                         *)
(* Spec        : a policy object on which Search is called repeatedly.     *)
(* SpecOneCall : one Search call with n_trials > 1 on a new policy whose   *)
(*               task has programs of pairwise distinct canonical strings. *)
(* SpecSample  : SampleInitPopulation calls on the sketches of a task,     *)
(*               states being their transform steps.                       *)
(***************************************************************************)
EXTENDS Integers, Sequences, FiniteSets, TLC

(***************************************************************************)
(* Bounds of the model.                                                    *)
(***************************************************************************)
\* Spec: the programs the sampling can produce are numbered 1..NumStates
NumStates == 3
\* SpecOneCall: the sampling can produce NumDistinct programs
NumDistinct == 3
\* Search is called with n_trials in 0..MaxTrials
MaxTrials == 2
\* ... with num_measure_per_iter one of
PerIterValues == {0, 1, 2}
\* ... with early_stopping one of
EarlyStoppingValues == {-1, 0, 1}
\* the "evolutionary_search.population" parameter is in 1..MaxPopulation
MaxPopulation == 2
\* the mean cost of a successful measurement is one of
Costs == {1}

\* SpecSample: a Split step has an extent in 1..MaxExtent
MaxExtent == 4
\* ... and one or two lengths
LengthCounts == {1, 2}
\* SampleInitPopulation is called with out_size one of
OutSizes == {0, 1, 2}

\* std::numeric_limits<int>::max()
IntMax == 2147483647

Min(a, b) == IF a < b THEN a ELSE b
Range(f) == {f[i] : i \in DOMAIN f}

(***************************************************************************)
(* States.  A State object is a positive number; NullState is the         *)
(* default-constructed State().  ToStr is the canonical string of the      *)
(* bound-inferred state: distinct State objects can have the same          *)
(* canonical string (here 2k-1 and 2k do).                                 *)
(***************************************************************************)
NullState == 0
ToStr(s) == (s + 1) \div 2

VARIABLES
  \* ---- SketchSearchPolicyNode
  programs,                      \* the States the task's sketches can be sampled into
  params,                        \* the params map and the cost model kind
  num_measure_per_iter_,
  measured_states_set_,
  measured_states_vector_,
  measured_states_throughputs_,
  \* ---- ProgramMeasurer
  measurer,
  \* ---- the running Search call
  pc, n_trials, early_stopping, num_random, ct, inputs, results,
  early_stopping_arg,            \* early_stopping as the caller passed it
  \* ---- history
  result, trace, all_inputs,
  \* ---- SampleInitPopulation (SpecSample)
  sketches,                      \* the Array GenerateSketches returned
  max_innermost_split_factor,    \* params[max_innermost_split_factor]
  sample_pc, out_size, out_states, fail_ct,
  samples,                       \* history: the sketches drawn in the running call
  \* ---- GenerateSketches (SpecSketch)
  search_task,                   \* the task: its compute DAG and hardware params
  cpu_structure,                 \* params[multi_level_tiling.cpu_structure]
  sketch_pc, pnow, pnext,
  cur,                           \* the state of *pnow the for loop is at
  sketch_out_states,
  derivations,                   \* history: the rules that made each sketch
  \* ---- two policies sampling the init population (SpecSeeded)
  seed,                          \* the seed each policy was built with
  init_params,                   \* the params of both
  rand_gen,                      \* the generator of each
  init_pc, init_out_size, init_out_states, init_fail_ct,
  init_calls,                    \* history: the out_size of the calls of each
  \* ---- a PickStatesWithEpsGreedy call followed iteration by iteration (SpecPick)
  best_states, random_states, pick_remaining_n_trials,
  pick_pc, offset_best, offset_random, pick_inputs,
  pick_log,                      \* history: what each iteration read and did
  \* ---- States as reference-counted objects (SpecShare)
  state_nodes,                   \* the StateNode objects, by number
  objects,                       \* the Array / AttachMap objects the StateNodes refer to
  frontier_refs,                 \* the States the enumeration buffers still hold
  sketch_refs,                   \* out_states of GenerateSketches, then the sketches
  population_refs,               \* out_states of SampleInitPopulation
  share_pc,
  share_i,                       \* the index i of the post-pass loop
  observed                       \* history: what the frontier and the sketches held

searchVars == <<programs, params, num_measure_per_iter_, measured_states_set_, measured_states_vector_,
                measured_states_throughputs_, measurer, pc, n_trials, early_stopping,
                num_random, ct, inputs, results, early_stopping_arg, result, trace,
                all_inputs>>

sampleVars == <<sketches, max_innermost_split_factor, sample_pc, out_size, out_states,
                fail_ct, samples>>

sketchVars == <<search_task, cpu_structure, sketch_pc, pnow, pnext, cur, sketch_out_states,
                derivations>>

seededVars == <<seed, init_params, rand_gen, init_pc, init_out_size, init_out_states,
                init_fail_ct, init_calls>>

pickVars == <<best_states, random_states, pick_remaining_n_trials, pick_pc, offset_best,
              offset_random, pick_inputs, pick_log>>

shareVars == <<state_nodes, objects, frontier_refs, sketch_refs, population_refs, share_pc,
               share_i, observed>>

vars == <<searchVars, sampleVars, sketchVars, seededVars, pickVars, shareVars>>

\* the variables the Search actions never touch
notSearchVars == <<sampleVars, sketchVars, seededVars, pickVars, shareVars>>

policyVars == <<measured_states_set_, measured_states_vector_>>

(***************************************************************************)
(* Events of the history variable trace (one Search call).                 *)
(***************************************************************************)
Event(kind, n, ins, res) == [ev |-> kind, n |-> n, ins |-> ins, res |-> res]
EvReset == Event("Reset", 0, <<>>, <<>>)
EvUpdate(ins, res) == Event("Update", 0, ins, res)
EvRound(num_random_states) == Event("SearchOneRound", num_random_states, <<>>, <<>>)
\* res: where each input was taken from
EvPick(ins, from, remaining) == Event("Pick", remaining, ins, from)
EvMeasure(ins, res, status) == Event("Measure", status, ins, res)
EvStop(ct_after, best_ct) == Event("EarlyStop", ct_after - best_ct, <<>>, <<>>)
EvReturn(from, s) == Event(from, 0, <<s>>, <<>>)

(***************************************************************************)
(* Rationals num/den with den > 0, as pairs.                               *)
(***************************************************************************)
Rat(num, den) == <<num, den>>
RatGreater(x, y) == x[1] * y[2] > y[1] * x[2]
\* static_cast<int>(x * k) for x >= 0
TruncMul(x, k) == (x[1] * k) \div x[2]

(***************************************************************************)
(* The measurer (ProgramMeasurer).  Its best_flops / best_state / best_ct  *)
(* maps are keyed by workload key; one search task has one key, so each    *)
(* map is the value at that key, or the value operator[] default-constructs *)
(* when the key is absent (0.0, State(), 0).                               *)
(***************************************************************************)
MeasureResults ==
  {[error_no |-> 0, cost |-> c] : c \in Costs} \cup {[error_no |-> 1, cost |-> 2]}

\* flop_ct / mean(costs), in units of flop_ct; 0.0 for a failed measurement
Flops(res) == IF res.error_no = 0 THEN Rat(1, res.cost) ELSE Rat(0, 1)

\* a measurer as constructed: nothing measured, the maps empty
NewMeasurer == [ct |-> 0, best_flops |-> Rat(0, 1), best_ct |-> 0, best_state |-> NullState]

\* ProgramMeasurerNode::Reset
MeasurerReset(m) == [ct |-> 0, best_flops |-> Rat(0, 1), best_ct |-> 0, best_state |-> NullState]

MeasureOne(m, s, res) ==
  IF RatGreater(Flops(res), m.best_flops)
    THEN [ct |-> m.ct + 1, best_flops |-> Flops(res), best_ct |-> m.ct, best_state |-> s]
    ELSE [m EXCEPT !.ct = m.ct + 1]

RECURSIVE MeasureAll(_, _, _)
MeasureAll(m, ins, res) ==
  IF ins = <<>> THEN m
  ELSE MeasureAll(MeasureOne(m, Head(ins), Head(res)), Tail(ins), Tail(res))

\* the status measurer.measure hands back: 0, or non-zero for a cancellation
MeasureStatuses == {0, 1}

(***************************************************************************)
(* Search: entry (lines 738-756).  The caller hands in a measurer it has   *)
(* just constructed.                                                       *)
(***************************************************************************)
\* variant: only n_trials <= 0 skips the measuring loop
NoMeasurementAllowedBelowOne(n) == n <= 0
NoMeasurementAllowed(n) == n <= 1

\* variant: line 754 left out
NormalizedEarlyStoppingKept(e) == e
NormalizedEarlyStopping(e) == IF e < 0 THEN IntMax \div 2 ELSE e

NumRandom(m) == TruncMul(params.eps_greedy, m)

SearchBegin(n, e, m) ==
  /\ pc = "idle"
  /\ ~NoMeasurementAllowed(n)
  /\ num_measure_per_iter_' = m
  /\ n_trials' = n
  /\ inputs' = <<>>
  /\ results' = <<>>
  /\ num_random' = NumRandom(m)
  /\ measurer' = MeasurerReset(measurer)
  /\ early_stopping_arg' = e
  /\ early_stopping' = NormalizedEarlyStopping(e)
  /\ ct' = 0
  /\ result' = NullState
  /\ trace' = <<EvReset>>
  /\ pc' = "loop_head"
  /\ UNCHANGED <<programs, params, policyVars, measured_states_throughputs_, all_inputs>>
  /\ UNCHANGED notSearchVars

\* line 801
ReturnBest(m, tr) ==
  /\ result' = m.best_state
  /\ trace' = Append(tr, EvReturn("ReturnBest", m.best_state))
  /\ pc' = "returned"

(***************************************************************************)
(* SearchOneRound (lines 805-848).                                         *)
(*                                                                         *)
(* RandomSampleStates(in_states, rand_gen, n) returns n entries, each      *)
(* drawn from in_states independently of the others.  Every entry of       *)
(* best_states / random_states is read at most once (by                    *)
(* PickStatesWithEpsGreedy, in order, or as best_states[0]), so an array   *)
(* is kept as its size plus the population it was drawn from, and an entry *)
(* is drawn when it is read.  Only membership in the population matters to *)
(* a draw, so init_population is kept as the set of its entries.           *)
(***************************************************************************)
\* Argsort: the indices (1-based) by decreasing score; the order of indices
\* with equal scores is not fixed
Argsort(scores) ==
  {p \in [DOMAIN scores -> DOMAIN scores] :
     /\ \A a, b \in DOMAIN scores : a # b => p[a] # p[b]
     /\ \A a, b \in DOMAIN scores : a < b => ~RatGreater(scores[p[b]], scores[p[a]])}

\* GenerateSketches + SampleInitPopulation(sketches, out_size): no init rule
\* returns kInvalid, so out_size candidates are produced
SampledPopulation(size) ==
  IF size <= 0 THEN {{}}
  ELSE {S \in SUBSET programs : 1 <= Cardinality(S) /\ Cardinality(S) <= size}

\* lines 836-839: measured_states_vector_[indices[i]] for i < num_use_measured;
\* indices[i] beyond the end of indices is an out-of-range read
UseMeasured(num_use_measured) ==
  {Range(f) : f \in {g \in [1..num_use_measured -> programs \cup {NullState}] :
     \E indices \in Argsort(measured_states_throughputs_) :
       \A i \in 1..num_use_measured :
         i <= Len(indices) => g[i] = measured_states_vector_[indices[i]]}}

NumUseMeasured ==
  Min(Len(measured_states_vector_), TruncMul(params.use_measured_ratio, params.population))

\* variant: the cost model is taken to be informative whatever it is
IsCostModelReasonableAlways == TRUE
\* line 822
IsCostModelReasonable == ~params.random_model

\* EvolutionarySearch (lines 959-974): the body is a stub, best_states stays empty
EvolutionarySearchSize(init_size, size) == 0

\* variant: random states for eps-greedy are drawn whatever the cost model is
SearchOneRoundRandomStates(num_random_states, per_iter) ==
  IF IsCostModelReasonable
    THEN {[init_population |-> sampled \cup measured,
           sample_size |-> params.population - NumUseMeasured,
           measured |-> measured,
           evolutionary |-> TRUE,
           best_size |-> EvolutionarySearchSize(params.population, per_iter * 2),
           random_size |-> num_random_states * 10] :
            sampled \in SampledPopulation(params.population - NumUseMeasured),
            measured \in UseMeasured(NumUseMeasured)}
    ELSE {[init_population |-> sampled,
           sample_size |-> params.population,
           measured |-> {},
           evolutionary |-> FALSE,
           best_size |-> per_iter * 3,
           random_size |-> num_random_states * 10] :
            sampled \in SampledPopulation(params.population)}

\* an outcome: the population the two arrays are drawn from, the out_size
\* SampleInitPopulation was called with, the measured states pushed to the
\* population, whether EvolutionarySearch was called, and the sizes of
\* best_states and *random_states
SearchOneRound(num_random_states, per_iter) ==
  IF IsCostModelReasonable
    THEN {[init_population |-> sampled \cup measured,
           sample_size |-> params.population - NumUseMeasured,
           measured |-> measured,
           evolutionary |-> TRUE,
           best_size |-> EvolutionarySearchSize(params.population, per_iter * 2),
           random_size |-> num_random_states * 10] :
            sampled \in SampledPopulation(params.population - NumUseMeasured),
            measured \in UseMeasured(NumUseMeasured)}
    ELSE {[init_population |-> sampled,
           sample_size |-> params.population,
           measured |-> {},
           evolutionary |-> FALSE,
           best_size |-> per_iter * 3,
           random_size |-> 0] :
            sampled \in SampledPopulation(params.population)}

\* the states best_states[0] can be, over the outcomes `outs` of SearchOneRound
FirstOfBest(outs) ==
  UNION {IF out.best_size > 0 THEN out.init_population ELSE {} : out \in outs}

NoBest(outs) == \E out \in outs : ~(out.best_size > 0)

(***************************************************************************)
(* Search with n_trials <= 1 (lines 738-745).                              *)
(***************************************************************************)
SearchNoMeasure(n, m) ==
  /\ pc = "idle"
  /\ NoMeasurementAllowed(n)
  /\ num_measure_per_iter_' = m
  /\ n_trials' = n
  /\ early_stopping_arg' = 0           \* not read on this path
  /\ early_stopping' = 0
  /\ num_random' = 0
  /\ inputs' = <<>>
  /\ results' = <<>>
  /\ ct' = 0
  /\ measurer' = NewMeasurer
  /\ \/ \E s \in FirstOfBest(SearchOneRound(0, m)) :         \* best_states[0]
          /\ result' = s
          /\ trace' = <<EvRound(0), EvReturn("ReturnFirst", s)>>
          /\ pc' = "returned"
     \/ /\ NoBest(SearchOneRound(0, m))          \* CHECK_GT(best_states.size(), 0)
        /\ pc' = "fatal"
        /\ trace' = <<EvRound(0)>>
        /\ result' = NullState
  /\ UNCHANGED <<programs, params, policyVars, measured_states_throughputs_, all_inputs>>
  /\ UNCHANGED notSearchVars

\* In a round of the loop (lines 758-767) the out-of-range read of lines
\* 836-839 may also end the process.  (With n_trials <= 1 a cost model that
\* reaches these lines fails the CHECK_GT of line 744 in any case.)
SearchOneRoundCrash ==
  /\ pc = "loop_head"
  /\ ct < n_trials
  /\ IsCostModelReasonable
  /\ NumUseMeasured > Len(measured_states_throughputs_)
  /\ pc' = "fatal"
  /\ trace' = trace
               \o (IF inputs # <<>> THEN <<EvUpdate(inputs, results)>> ELSE <<>>)
               \o <<EvRound(num_random)>>
  /\ UNCHANGED <<programs, params, num_measure_per_iter_, policyVars,
                 measured_states_throughputs_, measurer, n_trials, early_stopping,
                 early_stopping_arg, num_random, ct, inputs, results, result, all_inputs>>
  /\ UNCHANGED notSearchVars

(***************************************************************************)
(* PickStatesWithEpsGreedy (lines 976-1021).  A configuration of its loop  *)
(* holds the locals and the two members the loop writes.                   *)
(***************************************************************************)
\* variant: the loop condition without remaining_n_trials
PickCapPerIterOnly(per_iter, remaining_n_trials) == per_iter
PickCap(per_iter, remaining_n_trials) == Min(per_iter, remaining_n_trials)

NumGood == num_measure_per_iter_ - NumRandom(num_measure_per_iter_)

\* variant: the loop breaks as soon as one of the lists has no entry left
PickFromBothLeft(n_inputs, num_good, has_best, has_random) ==
  IF has_best /\ has_random
    THEN (IF n_inputs < num_good THEN "best" ELSE "random")
    ELSE "none"
\* variant: random_states is preferred from the first input on
PickFromRandomFirst(n_inputs, num_good, has_best, has_random) ==
  IF has_random THEN "random" ELSE IF has_best THEN "best" ELSE "none"
\* which list the iteration takes its candidate from ("none": break)
PickFrom(n_inputs, num_good, has_best, has_random) ==
  IF n_inputs < num_good
    THEN (IF has_best THEN "best" ELSE IF has_random THEN "random" ELSE "none")
    ELSE (IF has_random THEN "random" ELSE IF has_best THEN "best" ELSE "none")

\* variant: the count() test of line 1012 always passes
AlreadyMeasuredNever(state_str, measured_set) == FALSE
AlreadyMeasured(state_str, measured_set) == state_str \in measured_set

PickStart ==
  [inputs |-> <<>>, from |-> <<>>, offset_best |-> 0, offset_random |-> 0,
   set |-> measured_states_set_, vector |-> measured_states_vector_]

PickSource(c, best_size, random_size) ==
  PickFrom(Len(c.inputs), NumGood, c.offset_best < best_size, c.offset_random < random_size)

\* the loop condition of line 985 and the two breaks
PickContinues(c, best_size, random_size, remaining) ==
  /\ Len(c.inputs) < PickCap(num_measure_per_iter_, remaining)
  /\ PickSource(c, best_size, random_size) # "none"

\* one iteration (lines 986-1017) that reads `state` as the next entry
PickIteration(c, state, best_size, random_size) ==
  LET from == PickSource(c, best_size, random_size)
      ob == IF from = "best" THEN c.offset_best + 1 ELSE c.offset_best
      or == IF from = "random" THEN c.offset_random + 1 ELSE c.offset_random
  IN IF ~AlreadyMeasured(ToStr(state), c.set)
       THEN [inputs |-> Append(c.inputs, state), from |-> Append(c.from, from),
             offset_best |-> ob, offset_random |-> or,
             set |-> c.set \cup {ToStr(state)}, vector |-> Append(c.vector, state)]
       ELSE [c EXCEPT !.offset_best = ob, !.offset_random = or]

\* an iteration can still add an input: some entry's string is not in the set
\* (otherwise the iterations left only move the offsets)
CanAdd(c, entries) == \E s \in entries : ~AlreadyMeasured(ToStr(s), c.set)

\* the configurations the loop can end in, from the configurations `configs`
RECURSIVE PickLoop(_, _, _, _, _)
PickLoop(configs, entries, best_size, random_size, remaining) ==
  LET running == {c \in configs : /\ PickContinues(c, best_size, random_size, remaining)
                                  /\ CanAdd(c, entries)}
  IN IF running = {} THEN configs
     ELSE PickLoop((configs \ running) \cup
                     {PickIteration(c, s, best_size, random_size) :
                        c \in running, s \in entries},
                   entries, best_size, random_size, remaining)

\* what the call leaves: the returned inputs and the two members
PickStatesWithEpsGreedy(entries, best_size, random_size, remaining) ==
  {[inputs |-> c.inputs, from |-> c.from, set |-> c.set, vector |-> c.vector] :
     c \in PickLoop({PickStart}, entries, best_size, random_size, remaining)}

(***************************************************************************)
(* The loop of Search: lines 757-781 of one iteration.                     *)
(***************************************************************************)
\* variant: Update called in every round
NeedsUpdateAlways(ins) == TRUE
NeedsUpdate(ins) == ins # <<>>

\* variant: no break at line 778
SpaceExhaustedNever(ins) == FALSE
\* line 778: an empty list ends the loop
SpaceExhausted(ins) == ins = <<>>

Round ==
  /\ pc = "loop_head"
  /\ ct < n_trials
  /\ \E c \in UNION {PickStatesWithEpsGreedy(out.init_population, out.best_size,
                                             out.random_size, n_trials - ct) :
                     out \in SearchOneRound(num_random, num_measure_per_iter_)} :
         LET tr == trace
                   \o (IF NeedsUpdate(inputs) THEN <<EvUpdate(inputs, results)>> ELSE <<>>)
                   \o <<EvRound(num_random), EvPick(c.inputs, c.from, n_trials - ct)>>
         IN /\ inputs' = c.inputs
            /\ measured_states_set_' = c.set
            /\ measured_states_vector_' = c.vector
            /\ all_inputs' = all_inputs \o c.inputs
            /\ IF SpaceExhausted(c.inputs)
                 THEN ReturnBest(measurer, tr)
                 ELSE /\ pc' = "measure"
                      /\ trace' = tr
                      /\ UNCHANGED result
  /\ UNCHANGED <<programs, params, num_measure_per_iter_, measured_states_throughputs_, measurer,
                 n_trials, early_stopping, early_stopping_arg, num_random, ct, results>>
  /\ UNCHANGED notSearchVars

\* line 757 false, then lines 799-801
LoopExit ==
  /\ pc = "loop_head"
  /\ ~(ct < n_trials)
  /\ ReturnBest(measurer, trace)
  /\ UNCHANGED <<programs, params, num_measure_per_iter_, policyVars, measured_states_throughputs_,
                 measurer, n_trials, early_stopping, early_stopping_arg, num_random, ct,
                 inputs, results, all_inputs>>
  /\ UNCHANGED notSearchVars

(***************************************************************************)
(* measurer->Measure (line 785) and what follows it (lines 786-797).       *)
(***************************************************************************)
\* variant: a non-zero status of Measure also ends the loop
EarlyStopOrCancelled(status, new_ct, best_ct, early) ==
  status # 0 \/ new_ct - best_ct > early
\* line 789; the value Measure handed back is not looked at
EarlyStop(status, new_ct, best_ct, early) == new_ct - best_ct > early

\* line 796
Throughput(res) == Rat(1, res.cost)

MeasureBatch ==
  /\ pc = "measure"
  /\ \E res \in [1..Len(inputs) -> MeasureResults], status \in MeasureStatuses :
       LET m == MeasureAll(measurer, inputs, res)
           tr == Append(trace, EvMeasure(inputs, res, status))
       IN /\ results' = res
          /\ measurer' = m
          /\ ct' = ct + Len(inputs)
          /\ IF EarlyStop(status, ct', m.best_ct, early_stopping)
               THEN /\ ReturnBest(m, Append(tr, EvStop(ct', m.best_ct)))
                    /\ UNCHANGED measured_states_throughputs_
               ELSE /\ pc' = "loop_head"
                    /\ trace' = tr
                    /\ measured_states_throughputs_' =
                         measured_states_throughputs_
                           \o [i \in 1..Len(res) |-> Throughput(res[i])]
                    /\ UNCHANGED result
  /\ UNCHANGED <<programs, params, num_measure_per_iter_, policyVars, n_trials, early_stopping,
                 early_stopping_arg, num_random, inputs, all_inputs>>
  /\ UNCHANGED notSearchVars

(***************************************************************************)
(* Search has returned: its caller takes the result, the locals of the     *)
(* call and the measurer it was given are gone.                            *)
(***************************************************************************)
SearchReturned ==
  /\ pc = "returned"
  /\ pc' = "idle"
  /\ n_trials' = 0
  /\ early_stopping_arg' = 0
  /\ early_stopping' = 0
  /\ num_random' = 0
  /\ ct' = 0
  /\ inputs' = <<>>
  /\ results' = <<>>
  /\ result' = NullState
  /\ trace' = <<>>
  /\ measurer' = NewMeasurer
  /\ UNCHANGED <<programs, params, num_measure_per_iter_, policyVars, measured_states_throughputs_,
                 all_inputs>>
  /\ UNCHANGED notSearchVars

\* Optional<Integer>() without a value
Undefined == 0

RECURSIVE Product(_)
Product(lengths) == IF lengths = <<>> THEN 1 ELSE Head(lengths) * Product(Tail(lengths))

(***************************************************************************)
(* The loop state (State, Stage, Iterator, the transform steps and the     *)
(* attach map).  Stage ids and iterator ids count from 0 as in the source. *)
(* An operation carries what the access analyzer of the DAG says about it: *)
(* the operations it reads, the ones among them it matches elementwise,    *)
(* is_output, is_strict_inlinable, needs_multi_level_tiling, whether       *)
(* NeedsRfactor holds of it, its attrs (the keys, and the iterator names   *)
(* of always_unroll and always_unroll_inner) and the number of its axes.   *)
(***************************************************************************)
Op(name, reads, ewise, is_output, strict_inlinable, needs_mlt, needs_rfactor, attrs) ==
  [name |-> name, num_axes |-> 0, reads |-> reads, ewise |-> ewise, is_output |-> is_output,
   strict_inlinable |-> strict_inlinable, needs_mlt |-> needs_mlt,
   needs_rfactor |-> needs_rfactor, attrs |-> attrs,
   always_unroll |-> {}, always_unroll_inner |-> {}]

Iterator(name, iter_kind, extent) ==
  [name |-> name, iter_kind |-> iter_kind, extent |-> extent, annotation |-> "kNone"]

\* a stage of an operation with the axes `iters` (op->axis, then op->reduce_axis)
Stage(op, op_type, iters) ==
  [op |-> [op EXCEPT !.num_axes = Len(iters)], op_type |-> op_type, iters |-> iters,
   compute_at |-> "kRoot"]

\* the state of a DAG before any step
InitState(stages) ==
  [stages |-> stages, transform_steps |-> <<>>,
   stage_to_attach_iter |-> {}, iter_to_attached_stages |-> {}]

StageAt(state, stage_id) == state.stages[stage_id + 1]
IterAt(stage, iter_id) == stage.iters[iter_id + 1]
NumStages(state) == Len(state.stages)

\* a transform step; the fields a kind does not use are left empty, and every
\* Split the policy records has inner_to_outer = true
Step(kind, stage_id, iter_id, extent, lengths, ids, text) ==
  [kind |-> kind, stage_id |-> stage_id, iter_id |-> iter_id, extent |-> extent,
   lengths |-> lengths, inner_to_outer |-> TRUE, ids |-> ids, text |-> text]

\* ---- the attach map: stage_to_attach_iter is a set of <<stage, target, iter>>,
\* ---- iter_to_attached_stages a set of <<target, iter, stage>>
AttachDelete(state, stage_id) ==
  [state EXCEPT
     !.stage_to_attach_iter = {e \in @ : e[1] # stage_id},
     !.iter_to_attached_stages = {e \in @ : e[3] # stage_id}]

AttachSet(state, stage_id, target_stage_id, iter_id) ==
  LET cleared == AttachDelete(state, stage_id)
  IN [cleared EXCEPT
        !.stage_to_attach_iter = @ \cup {<<stage_id, target_stage_id, iter_id>>},
        !.iter_to_attached_stages = @ \cup {<<target_stage_id, iter_id, stage_id>>}]

\* the iterators of stage_id are renumbered by `to` (old iterator id -> new)
AttachUpdateIters(state, stage_id, to) ==
  [state EXCEPT
     !.stage_to_attach_iter =
        {IF e[2] = stage_id THEN <<e[1], e[2], to[e[3]]>> ELSE e : e \in @},
     !.iter_to_attached_stages =
        {IF e[1] = stage_id THEN <<e[1], to[e[2]], e[3]>> ELSE e : e \in @}]

\* a stage was inserted at stage_id: the stage ids from there on move up
AttachShiftStages(state, stage_id) ==
  LET up(s) == IF s >= stage_id THEN s + 1 ELSE s
  IN [state EXCEPT
        !.stage_to_attach_iter = {<<up(e[1]), up(e[2]), e[3]>> : e \in @},
        !.iter_to_attached_stages = {<<up(e[1]), e[2], up(e[3])>> : e \in @}]

HasAttachedStages(state, stage_id, iter_id) ==
  \E e \in state.iter_to_attached_stages : e[1] = stage_id /\ e[2] = iter_id

AttachedStages(state, stage_id, iter_id) ==
  {e[3] : e \in {x \in state.iter_to_attached_stages : x[1] = stage_id /\ x[2] = iter_id}}

IsAttached(state, stage_id) == \E e \in state.stage_to_attach_iter : e[1] = stage_id

\* stage_to_attach_iter.at(stage_id).first
AttachTargetStage(state, stage_id) ==
  (CHOOSE e \in state.stage_to_attach_iter : e[1] = stage_id)[2]

\* ---- sequences
CeilDiv(a, b) == (a + b - 1) \div b

InsertAt(q, pos, x) == SubSeq(q, 1, pos - 1) \o <<x>> \o SubSeq(q, pos, Len(q))

\* q with the entries pos .. pos + n - 1 replaced by the sequence r
Splice(q, pos, n, r) == SubSeq(q, 1, pos - 1) \o r \o SubSeq(q, pos + n, Len(q))

\* the position (from 1) of the first x in q, 0 if there is none
IndexOf(q, x) ==
  IF \E k \in DOMAIN q : q[k] = x THEN CHOOSE k \in DOMAIN q : q[k] = x /\ \A j \in 1..(k - 1) : q[j] # x
  ELSE 0

(***************************************************************************)
(* Applying a step to the stages and the attach map.                       *)
(***************************************************************************)
WithStage(state, stage_id, stage) == [state EXCEPT !.stages[stage_id + 1] = stage]

\* the range of every iterator dropped (the stage moves to another loop nest)
WithoutRanges(iters) == [k \in DOMAIN iters |-> [iters[k] EXCEPT !.extent = Undefined]]

\* split with inner_to_outer: lengths are those of the parts 1 .. n, taken
\* from the innermost; a part has a range when its length, every length
\* inside it and the extent split are known
SplitParts(it, lengths) ==
  LET n == Len(lengths)
      known(k) == /\ it.extent # Undefined
                  /\ \A j \in k..n : lengths[j] # Undefined
  IN [k \in 1..(n + 1) |->
        Iterator(it.name \o "." \o ToString(k - 1), it.iter_kind,
                 IF k = 1
                   THEN (IF known(1) THEN CeilDiv(it.extent, Product(lengths)) ELSE Undefined)
                   ELSE (IF known(k - 1) THEN lengths[k - 1] ELSE Undefined))]

ApplySplit(state, step) ==
  LET stage == StageAt(state, step.stage_id)
      n == Len(step.lengths)
      iters == Splice(stage.iters, step.iter_id + 1, 1,
                      SplitParts(IterAt(stage, step.iter_id), step.lengths))
      to == [i \in 0..(Len(stage.iters) - 1) |-> IF i >= step.iter_id THEN i + n ELSE i]
  IN AttachUpdateIters(WithStage(state, step.stage_id, [stage EXCEPT !.iters = iters]),
                       step.stage_id, to)

RECURSIVE FusedName(_)
FusedName(iters) ==
  IF iters = <<>> THEN "" ELSE Head(iters).name \o "@" \o FusedName(Tail(iters))

FusedIterator(iters) ==
  Iterator(FusedName(iters),
           IF \A k \in DOMAIN iters : iters[k].iter_kind = iters[1].iter_kind
             THEN iters[1].iter_kind ELSE "kMixed",
           IF \A k \in DOMAIN iters : iters[k].extent # Undefined
             THEN Product([k \in DOMAIN iters |-> iters[k].extent]) ELSE Undefined)

\* step.ids: the ids of the iterators to fuse, contiguous and in order
ApplyFuse(state, step) ==
  LET stage == StageAt(state, step.stage_id)
      first == step.ids[1]
      m == Len(step.ids)
      iters == Splice(stage.iters, first + 1, m,
                      <<FusedIterator(SubSeq(stage.iters, first + 1, first + m))>>)
      to == [i \in 0..(Len(stage.iters) - 1) |->
               IF i < first THEN i ELSE IF i < first + m THEN first ELSE i - (m - 1)]
  IN AttachUpdateIters(WithStage(state, step.stage_id, [stage EXCEPT !.iters = iters]),
                       step.stage_id, to)

\* step.ids: the ids of all the iterators in their new order
ApplyReorder(state, step) ==
  LET stage == StageAt(state, step.stage_id)
      iters == [k \in DOMAIN step.ids |-> IterAt(stage, step.ids[k])]
      to == [i \in 0..(Len(stage.iters) - 1) |-> IndexOf(step.ids, i) - 1]
  IN AttachUpdateIters(WithStage(state, step.stage_id, [stage EXCEPT !.iters = iters]),
                       step.stage_id, to)

\* step.ids = <<target_stage_id, target_iter_id>>
ApplyComputeAt(state, step) ==
  LET stage == StageAt(state, step.stage_id)
  IN AttachSet(WithStage(state, step.stage_id,
                         [stage EXCEPT !.compute_at = "kIter", !.iters = WithoutRanges(@)]),
               step.stage_id, step.ids[1], step.ids[2])

ApplyComputeInline(state, step) ==
  LET stage == StageAt(state, step.stage_id)
  IN AttachDelete(WithStage(state, step.stage_id, [stage EXCEPT !.compute_at = "kInlined"]),
                  step.stage_id)

ApplyComputeRoot(state, step) ==
  LET stage == StageAt(state, step.stage_id)
  IN AttachDelete(WithStage(state, step.stage_id,
                            [stage EXCEPT !.compute_at = "kRoot", !.iters = WithoutRanges(@)]),
                  step.stage_id)

\* step.text: "parallel", "vectorize" or "unroll"
ApplyAnnotation(state, step) ==
  [state EXCEPT !.stages[step.stage_id + 1].iters[step.iter_id + 1].annotation = step.text]

SpatialIters(iters) == SelectSeq(iters, LAMBDA it : it.iter_kind = "kSpatial")

\* cache_write: a new stage that computes the operation (its reduction
\* included) is inserted at stage_id; the stage of the operation, now at
\* stage_id + 1, copies the new stage's result elementwise
ApplyCacheWrite(state, step) ==
  LET stage == StageAt(state, step.stage_id)
      cache_op == [stage.op EXCEPT !.name = @ \o "." \o step.text, !.is_output = FALSE,
                                   !.strict_inlinable = FALSE]
      cache_stage == Stage(cache_op, "kCompute", stage.iters)
      copy_op == [stage.op EXCEPT !.reads = {cache_op.name}, !.ewise = {cache_op.name},
                                  !.needs_mlt = FALSE, !.needs_rfactor = FALSE]
      copy_stage == [Stage(copy_op, stage.op_type, SpatialIters(stage.iters))
                       EXCEPT !.compute_at = stage.compute_at]
      shifted == AttachShiftStages(state, step.stage_id)
  IN [shifted EXCEPT
        !.stages = InsertAt([state.stages EXCEPT ![step.stage_id + 1] = copy_stage],
                            step.stage_id + 1, cache_stage)]

\* rfactor of the reduction iterator iter_id: a new stage is inserted at
\* stage_id, in which that iterator is the spatial iterator number
\* factor_iter_id (step.ids[1]); the stage of the operation, now at
\* stage_id + 1, reduces over it
ApplyRfactor(state, step) ==
  LET stage == StageAt(state, step.stage_id)
      factored == IterAt(stage, step.iter_id)
      space == SpatialIters(stage.iters)
      reduce == SelectSeq(stage.iters,
                          LAMBDA it : it.iter_kind # "kSpatial" /\ it.name # factored.name)
      rf_op == [stage.op EXCEPT !.name = @ \o ".rf", !.is_output = FALSE,
                                !.strict_inlinable = FALSE, !.needs_mlt = FALSE,
                                !.needs_rfactor = FALSE]
      rf_stage == Stage(rf_op, "kCompute",
                        InsertAt(space, step.ids[1] + 1,
                                 [factored EXCEPT !.iter_kind = "kSpatial"]) \o reduce)
      final_op == [stage.op EXCEPT !.reads = {rf_op.name}, !.ewise = {},
                                   !.needs_mlt = FALSE, !.needs_rfactor = FALSE]
      final_stage == [Stage(final_op, stage.op_type,
                            space \o <<[factored EXCEPT !.name = @ \o ".v"]>>)
                        EXCEPT !.compute_at = stage.compute_at]
      shifted == AttachShiftStages(state, step.stage_id)
  IN [shifted EXCEPT
        !.stages = InsertAt([state.stages EXCEPT ![step.stage_id + 1] = final_stage],
                            step.stage_id + 1, rf_stage)]

\* the stages and the attach map after the step (Pragma changes neither)
ApplyStep(state, step) ==
  CASE step.kind = "Split" -> ApplySplit(state, step)
    [] step.kind = "Fuse" -> ApplyFuse(state, step)
    [] step.kind = "Reorder" -> ApplyReorder(state, step)
    [] step.kind = "ComputeAt" -> ApplyComputeAt(state, step)
    [] step.kind = "ComputeInline" -> ApplyComputeInline(state, step)
    [] step.kind = "ComputeRoot" -> ApplyComputeRoot(state, step)
    [] step.kind = "CacheWrite" -> ApplyCacheWrite(state, step)
    [] step.kind = "Rfactor" -> ApplyRfactor(state, step)
    [] step.kind = "Annotation" -> ApplyAnnotation(state, step)
    [] OTHER -> state

\* a mutator of State: the step is appended to the history and applied
Do(state, step) ==
  [ApplyStep(state, step) EXCEPT !.transform_steps = Append(state.transform_steps, step)]

\* the state the steps lead to from `init`
RECURSIVE ReplaySteps(_, _)
ReplaySteps(init, steps) ==
  IF steps = <<>> THEN init ELSE ReplaySteps(Do(init, Head(steps)), Tail(steps))

\* ---- the mutators the rules call
split(state, stage_id, iter_id, lengths) ==
  Do(state, Step("Split", stage_id, iter_id,
                 IterAt(StageAt(state, stage_id), iter_id).extent, lengths, <<>>, ""))
fuse(state, stage_id, ids) == Do(state, Step("Fuse", stage_id, 0, Undefined, <<>>, ids, ""))
reorder(state, stage_id, order) ==
  Do(state, Step("Reorder", stage_id, 0, Undefined, <<>>, order, ""))
compute_at(state, stage_id, target_stage_id, target_iter_id) ==
  Do(state, Step("ComputeAt", stage_id, 0, Undefined, <<>>,
                 <<target_stage_id, target_iter_id>>, ""))
compute_inline(state, stage_id) ==
  Do(state, Step("ComputeInline", stage_id, 0, Undefined, <<>>, <<>>, ""))
compute_root(state, stage_id) ==
  Do(state, Step("ComputeRoot", stage_id, 0, Undefined, <<>>, <<>>, ""))
cache_write(state, stage_id, scope_name) ==
  Do(state, Step("CacheWrite", stage_id, 0, Undefined, <<>>, <<>>, scope_name))
rfactor(state, stage_id, iter_id, factor_iter_id) ==
  Do(state, Step("Rfactor", stage_id, iter_id, Undefined, <<>>, <<factor_iter_id>>, ""))
annotate(state, stage_id, iter_id, annotation) ==
  Do(state, Step("Annotation", stage_id, iter_id, Undefined, <<>>, <<>>, annotation))
pragma(state, stage_id, iter_id, pragma_type) ==
  Do(state, Step("Pragma", stage_id, iter_id, Undefined, <<>>, <<>>, pragma_type))

(***************************************************************************)
(* The queries the rules make of a state (search_policy/utils.h).          *)
(***************************************************************************)
StageIds(state) == 0..(NumStages(state) - 1)

IsOutputOp(state, stage_id) == StageAt(state, stage_id).op.is_output
HasReduceIter(stage) == \E k \in DOMAIN stage.iters : stage.iters[k].iter_kind # "kSpatial"
HasAttrsFlag(state, stage_id, flag) == flag \in StageAt(state, stage_id).op.attrs
IsStrictInlineable(state, stage_id) == StageAt(state, stage_id).op.strict_inlinable
NeedsMultilevelTiling(state, stage_id) == StageAt(state, stage_id).op.needs_mlt
NeedsRfactor(state, stage_id) == StageAt(state, stage_id).op.needs_rfactor
IsTiled(stage) == Len(stage.iters) # stage.op.num_axes

\* the stages that read the operation of stage_id
Readers(state, stage_id) ==
  {c \in StageIds(state) : StageAt(state, stage_id).op.name \in StageAt(state, c).op.reads}

\* GetConsumers: the readers, an inlined one standing for its own consumers
RECURSIVE GetConsumers(_, _)
GetConsumers(state, stage_id) ==
  UNION {IF StageAt(state, c).compute_at = "kInlined"
           THEN GetConsumers(state, c) ELSE {c} : c \in Readers(state, stage_id)}

\* ElementWiseMatch, through chains of inlined stages
RECURSIVE ElementwiseMatch(_, _, _)
ElementwiseMatch(state, stage_id, target_stage_id) ==
  \E c \in Readers(state, stage_id) :
    /\ StageAt(state, stage_id).op.name \in StageAt(state, c).op.ewise
    /\ IF StageAt(state, c).compute_at = "kInlined"
         THEN ElementwiseMatch(state, c, target_stage_id)
         ELSE c = target_stage_id

\* the id of the only consumer, -1 if there is none or more than one
GetSingleConsumerId(state, stage_id) ==
  LET consumers == GetConsumers(state, stage_id)
  IN IF Cardinality(consumers) = 1 THEN CHOOSE c \in consumers : TRUE ELSE -1

HasSingleElementwiseMatchedConsumer(state, stage_id) ==
  /\ GetSingleConsumerId(state, stage_id) >= 0
  /\ ElementwiseMatch(state, stage_id, GetSingleConsumerId(state, stage_id))

IsStageNumberChangingStep(step) == step.kind \in {"CacheWrite", "CacheRead", "Rfactor"}

\* HasCacheWriteStage: the history is read backwards for a CacheWrite step of
\* the stage, the stage id being adjusted for the stages added on the way
RECURSIVE HasCacheWriteStageFrom(_, _, _)
HasCacheWriteStageFrom(steps, i, stage_id) ==
  IF i < 1 THEN FALSE
  ELSE IF steps[i].kind = "CacheWrite" /\ steps[i].stage_id = stage_id THEN TRUE
  ELSE HasCacheWriteStageFrom(steps, i - 1,
         IF IsStageNumberChangingStep(steps[i]) /\ stage_id > steps[i].stage_id
           THEN stage_id - 1 ELSE stage_id)

HasCacheWriteStage(state, stage_id) ==
  HasCacheWriteStageFrom(state.transform_steps, Len(state.transform_steps), stage_id)

(***************************************************************************)
(* Multi-level tiling (DoMultiLevelTiling, FollowTiling of utils.h).  The  *)
(* structure is the sequence of the letters of the format string.          *)
(***************************************************************************)
ToLower(c) == IF c = "S" THEN "s" ELSE IF c = "R" THEN "r" ELSE c
CountOf(format, c) == Cardinality({t \in DOMAIN format : ToLower(format[t]) = c})

\* the parts an iterator of the kind is split into
NumParts(format, iter_kind) ==
  IF iter_kind = "kSpatial" THEN CountOf(format, "s") ELSE CountOf(format, "r")

UndefinedLengths(n) == [k \in 1..n |-> Undefined]

\* the iterators `iters` of the stage, from number k on, are split one after
\* the other; `base` is where iterator k now is.  Gives the state and the ids
\* of the Split steps of spatial iterators.
RECURSIVE SplitAll(_, _, _, _, _, _, _)
SplitAll(state, stage_id, iters, k, base, parts, step_ids) ==
  IF k > Len(iters) THEN [state |-> state, spatial_split_step_ids |-> step_ids]
  ELSE LET n == parts[k]
       IN IF n <= 1
            THEN SplitAll(state, stage_id, iters, k + 1, base + 1, parts, step_ids)
            ELSE SplitAll(split(state, stage_id, base, UndefinedLengths(n - 1)),
                          stage_id, iters, k + 1, base + n, parts,
                          IF iters[k].iter_kind = "kSpatial"
                            THEN Append(step_ids, Len(state.transform_steps))
                            ELSE step_ids)

\* where part `level` (from 0) of iterator k is after SplitAll
RECURSIVE PartId(_, _, _)
PartId(parts, k, level) ==
  IF k = 1 THEN level
  ELSE (IF parts[k - 1] <= 1 THEN 1 ELSE parts[k - 1]) + PartId(parts, k - 1, level)

\* the order of the reorder: for every letter of the format the parts of its
\* level, of every iterator of its kind
RECURSIVE TiledOrder(_, _, _, _)
TiledOrder(format, t, iters, parts) ==
  IF t > Len(format) THEN <<>>
  ELSE LET c == ToLower(format[t])
           level == Cardinality({u \in 1..(t - 1) : ToLower(format[u]) = c})
           kind_ok(it) == IF c = "s" THEN it.iter_kind = "kSpatial"
                                     ELSE it.iter_kind # "kSpatial"
           ks == SelectSeq([k \in DOMAIN iters |-> k],
                           LAMBDA k : kind_ok(iters[k]) /\ level < (IF parts[k] <= 1 THEN 1 ELSE parts[k]))
       IN [j \in DOMAIN ks |-> PartId(parts, ks[j], level)]
            \o TiledOrder(format, t + 1, iters, parts)

DoMultiLevelTiling(state, stage_id, format) ==
  LET iters == StageAt(state, stage_id).iters
      parts == [k \in DOMAIN iters |-> NumParts(format, iters[k].iter_kind)]
      tiled == SplitAll(state, stage_id, iters, 1, 0, parts, <<>>)
  IN [state |-> reorder(tiled.state, stage_id, TiledOrder(format, 1, iters, parts)),
      spatial_split_step_ids |-> tiled.spatial_split_step_ids]

\* FollowTiling: every iterator of the stage is split into n_split + 1 parts,
\* ordered level by level
FollowTiling(state, stage_id, split_step_ids, n_split) ==
  LET iters == StageAt(state, stage_id).iters
      parts == [k \in DOMAIN iters |-> n_split + 1]
      levels == [t \in 1..(n_split + 1) |-> "s"]
      tiled == SplitAll(state, stage_id, iters, 1, 0, parts, <<>>)
  IN reorder(tiled.state, stage_id, TiledOrder(levels, 1, iters, parts))

\* FuseAllReductionIterators: the state, and the id of the fused iterator
FuseAllReductionIterators(state, stage_id) ==
  LET iters == StageAt(state, stage_id).iters
      reduce_ids == SelectSeq([k \in DOMAIN iters |-> k - 1],
                              LAMBDA i : iters[i + 1].iter_kind = "kReduction")
  IN [state |-> IF Len(reduce_ids) > 1 THEN fuse(state, stage_id, reduce_ids) ELSE state,
      fused_reduce_iter |-> reduce_ids[1],
      num_space_iters |-> Len(SpatialIters(iters))]

(***************************************************************************)
(* The sketch generation rules (lines 100-298).  Apply gives the sequence  *)
(* of (state, stage_id) pairs of the rule.                                 *)
(***************************************************************************)
Pair(state, stage_id) == [state |-> state, stage_id |-> stage_id]

\* variant: placeholders are not excepted
ShouldAlwaysBeInlinedAnyStage(state, stage_id) ==
  /\ ~IsOutputOp(state, stage_id)
  /\ ~HasReduceIter(StageAt(state, stage_id))
  /\ \/ HasAttrsFlag(state, stage_id, "always_compute_inline")
     \/ IsStrictInlineable(state, stage_id)
\* lines 100-121
ShouldAlwaysBeInlined(state, stage_id) ==
  /\ StageAt(state, stage_id).op_type # "kPlaceholder"
  /\ ~IsOutputOp(state, stage_id)
  /\ ~HasReduceIter(StageAt(state, stage_id))
  /\ \/ HasAttrsFlag(state, stage_id, "always_compute_inline")
     \/ IsStrictInlineable(state, stage_id)

\* variant: the rules after it are tried too
RuleAlwaysInlineMeetConditionApply(state, stage_id) ==
  IF ShouldAlwaysBeInlined(state, stage_id) THEN "kApply" ELSE "kPass"
\* lines 126-130
RuleAlwaysInlineMeetCondition(state, stage_id) ==
  IF ShouldAlwaysBeInlined(state, stage_id) THEN "kApplyAndSkipRest" ELSE "kPass"

RuleAlwaysInlineApply(state, stage_id) ==
  <<Pair(compute_inline(state, stage_id), stage_id - 1)>>

RuleSkipStageMeetCondition(state, stage_id) == "kApply"

\* variant: the state is queued again at the same stage
RuleSkipStageApplySameStage(state, stage_id) == <<Pair(state, stage_id)>>
RuleSkipStageApply(state, stage_id) == <<Pair(state, stage_id - 1)>>

RuleMultiLevelTilingMeetCondition(state, stage_id) ==
  IF NeedsMultilevelTiling(state, stage_id) THEN "kApply" ELSE "kPass"

RuleMultiLevelTilingApply(state, stage_id, format) ==
  <<Pair(DoMultiLevelTiling(state, stage_id, format).state, stage_id - 1)>>

\* variant: the rest of the rules is skipped whenever the rule applies
RuleMultiLevelTilingWithFusionAlwaysSkipRest(state, stage_id) ==
  IF /\ NeedsMultilevelTiling(state, stage_id)
     /\ HasSingleElementwiseMatchedConsumer(state, stage_id)
    THEN "kApplyAndSkipRest"
    ELSE "kPass"
\* variant: the rules after it are never skipped
RuleMultiLevelTilingWithFusionNeverSkipRest(state, stage_id) ==
  IF /\ NeedsMultilevelTiling(state, stage_id)
     /\ HasSingleElementwiseMatchedConsumer(state, stage_id)
    THEN "kApply"
    ELSE "kPass"
\* lines 175-185
RuleMultiLevelTilingWithFusionMeetCondition(state, stage_id) ==
  IF /\ NeedsMultilevelTiling(state, stage_id)
     /\ HasSingleElementwiseMatchedConsumer(state, stage_id)
    THEN (IF HasCacheWriteStage(state, stage_id) THEN "kApplyAndSkipRest" ELSE "kApply")
    ELSE "kPass"

\* lines 201-206 for one level
FusionVariant(base, stage_id, target_stage_id, level) ==
  LET tmp_s == FollowTiling(base.state, target_stage_id, base.spatial_split_step_ids, level)
  IN Pair(compute_at(tmp_s, stage_id, target_stage_id,
                     level * Len(base.spatial_split_step_ids) - 1),
          stage_id - 1)

follow_tiling_levels == <<1, 2>>

\* variant: no level is left out for its structure character
RuleMultiLevelTilingWithFusionApplyAllLevels(state, stage_id, format) ==
  LET target_stage_id == GetSingleConsumerId(state, stage_id)
      base == DoMultiLevelTiling(state, stage_id, format)
  IN [k \in DOMAIN follow_tiling_levels |->
        FusionVariant(base, stage_id, target_stage_id, follow_tiling_levels[k])]
\* lines 187-210; target_stage_id is what MeetCondition has left in the rule
RuleMultiLevelTilingWithFusionApply(state, stage_id, format) ==
  LET target_stage_id == GetSingleConsumerId(state, stage_id)
      base == DoMultiLevelTiling(state, stage_id, format)
      levels == SelectSeq(follow_tiling_levels, LAMBDA level : ToLower(format[level]) = "s")
  IN [k \in DOMAIN levels |-> FusionVariant(base, stage_id, target_stage_id, levels[k])]

\* variant: the rules after it are skipped when it applies
RuleAddCacheWriteMeetConditionSkipRest(state, stage_id) ==
  IF HasAttrsFlag(state, stage_id, "no_cache_write") THEN "kPass"
  ELSE IF /\ NeedsMultilevelTiling(state, stage_id)
          /\ ~HasSingleElementwiseMatchedConsumer(state, stage_id)
         THEN "kApplyAndSkipRest"
         ELSE "kPass"
\* lines 219-232
RuleAddCacheWriteMeetCondition(state, stage_id) ==
  IF HasAttrsFlag(state, stage_id, "no_cache_write") THEN "kPass"
  ELSE IF /\ NeedsMultilevelTiling(state, stage_id)
          /\ ~HasSingleElementwiseMatchedConsumer(state, stage_id)
         THEN "kApply"
         ELSE "kPass"

RuleAddCacheWriteApply(state, stage_id) ==
  <<Pair(cache_write(state, stage_id, "local"), stage_id)>>

\* variant: the rules after it are skipped when it applies
RuleAddRfactorMeetConditionSkipRest(state, stage_id) ==
  IF NeedsRfactor(state, stage_id) /\ ~HasCacheWriteStage(state, stage_id)
    THEN "kApplyAndSkipRest" ELSE "kPass"
RuleAddRfactorMeetCondition(state, stage_id) ==
  IF NeedsRfactor(state, stage_id) /\ ~HasCacheWriteStage(state, stage_id)
    THEN "kApply" ELSE "kPass"

\* the order of line 276-283: every iterator but number num_space, then it
RfactorReorder(n_iters, num_space) ==
  SelectSeq([k \in 1..n_iters |-> k - 1], LAMBDA i : i # num_space) \o <<num_space>>

\* lines 270-286 for the part split_iter (0: outer, 1: inner) of the split
RfactorVariant(base_state, stage_id, split_iter_id, is_inner, num_space) ==
  LET tmp_s == rfactor(base_state, stage_id, split_iter_id, num_space)
      rstage_id == stage_id
  IN Pair(IF is_inner
            THEN reorder(tmp_s, rstage_id,
                         RfactorReorder(Len(StageAt(tmp_s, rstage_id).iters), num_space))
            ELSE tmp_s,
          rstage_id - 1)

\* lines 252-290
RuleAddRfactorApply(state, stage_id) ==
  LET fused == FuseAllReductionIterators(state, stage_id)
      base_state == split(fused.state, stage_id, fused.fused_reduce_iter, <<1>>)
  IN <<RfactorVariant(base_state, stage_id, fused.fused_reduce_iter, FALSE,
                      fused.num_space_iters),
       RfactorVariant(base_state, stage_id, fused.fused_reduce_iter + 1, TRUE,
                      fused.num_space_iters)>>

\* lines 721-726
sketch_rules ==
  <<"rule_always_inline", "rule_add_rfactor", "rule_add_cache_write_stage",
    "rule_multi_level_tiling_with_fusion", "rule_multi_level_tiling", "rule_skip_stage">>

MeetCondition(rule, state, stage_id) ==
  CASE rule = "rule_always_inline" -> RuleAlwaysInlineMeetCondition(state, stage_id)
    [] rule = "rule_add_rfactor" -> RuleAddRfactorMeetCondition(state, stage_id)
    [] rule = "rule_add_cache_write_stage" -> RuleAddCacheWriteMeetCondition(state, stage_id)
    [] rule = "rule_multi_level_tiling_with_fusion" ->
         RuleMultiLevelTilingWithFusionMeetCondition(state, stage_id)
    [] rule = "rule_multi_level_tiling" -> RuleMultiLevelTilingMeetCondition(state, stage_id)
    [] rule = "rule_skip_stage" -> RuleSkipStageMeetCondition(state, stage_id)

Apply(rule, state, stage_id, format) ==
  CASE rule = "rule_always_inline" -> RuleAlwaysInlineApply(state, stage_id)
    [] rule = "rule_add_rfactor" -> RuleAddRfactorApply(state, stage_id)
    [] rule = "rule_add_cache_write_stage" -> RuleAddCacheWriteApply(state, stage_id)
    [] rule = "rule_multi_level_tiling_with_fusion" ->
         RuleMultiLevelTilingWithFusionApply(state, stage_id, format)
    [] rule = "rule_multi_level_tiling" -> RuleMultiLevelTilingApply(state, stage_id, format)
    [] rule = "rule_skip_stage" -> RuleSkipStageApply(state, stage_id)

\* history: the rule that made a pair, its condition and the stage it was
\* applied to, after those that made the state it was applied to
Derived(pairs, derivation, rule, cond, stage_id) ==
  [k \in DOMAIN pairs |->
     [state |-> pairs[k].state, stage_id |-> pairs[k].stage_id,
      derivation |-> Append(derivation, [rule |-> rule, cond |-> cond, stage_id |-> stage_id,
                                         variant |-> k, variants |-> Len(pairs)])]]

\* variant: no break at line 888
RECURSIVE TryRulesAll(_, _, _)
TryRulesAll(rules, pair, format) ==
  IF rules = <<>> THEN <<>>
  ELSE LET cond == MeetCondition(Head(rules), pair.state, pair.stage_id)
       IN IF cond = "kPass" THEN TryRulesAll(Tail(rules), pair, format)
          ELSE Derived(Apply(Head(rules), pair.state, pair.stage_id, format),
                       pair.derivation, Head(rules), cond, pair.stage_id)
                 \o TryRulesAll(Tail(rules), pair, format)

\* lines 878-890: the rules from `rules` on, tried on the state of `pair`
RECURSIVE TryRules(_, _, _)
TryRules(rules, pair, format) ==
  IF rules = <<>> THEN <<>>
  ELSE LET cond == MeetCondition(Head(rules), pair.state, pair.stage_id)
       IN IF cond = "kPass" THEN TryRules(Tail(rules), pair, format)
          ELSE Derived(Apply(Head(rules), pair.state, pair.stage_id, format),
                       pair.derivation, Head(rules), cond, pair.stage_id)
                 \o (IF cond = "kApplyAndSkipRest" THEN <<>>
                     ELSE TryRules(Tail(rules), pair, format))

\* variant: the post-pass leaves the steps as they are
RfactorSplitKept(state) == state
\* lines 902-917 for one state: the Split step before every Rfactor step gets
\* the one undefined length
RfactorSplitUndefined(state) ==
  [state EXCEPT !.transform_steps =
     [i \in DOMAIN @ |->
        IF i < Len(@) /\ @[i + 1].kind = "Rfactor"
          THEN [@[i] EXCEPT !.lengths = <<Undefined>>]
          ELSE @[i]]]

(***************************************************************************)
(* GenerateSketches (lines 850-921).  The entry of cur_stage_id_map for a  *)
(* state is kept beside the state in pnow / pnext.                         *)
(***************************************************************************)
GenerateSketchesBegin ==
  /\ sketch_pc = "idle"
  /\ pnow' = <<[state |-> search_task.init_state,
                stage_id |-> NumStages(search_task.init_state) - 1,
                derivation |-> <<>>]>>
  /\ pnext' = <<>>
  /\ cur' = 1
  /\ sketch_out_states' = <<>>
  /\ derivations' = <<>>
  /\ sketch_pc' = "enumerate"
  /\ UNCHANGED <<search_task, cpu_structure>>
  /\ UNCHANGED <<searchVars, sampleVars, seededVars, pickVars, shareVars>>

\* lines 868-890 for the state number cur of *pnow
ExpandState ==
  /\ sketch_pc = "enumerate"
  /\ cur <= Len(pnow)
  /\ LET pair == pnow[cur]
     IN IF pair.stage_id < 0
          THEN /\ sketch_out_states' = Append(sketch_out_states, pair.state)
               /\ derivations' = Append(derivations, pair.derivation)
               /\ UNCHANGED pnext
          ELSE /\ pnext' = pnext \o TryRules(sketch_rules, pair, cpu_structure)
               /\ UNCHANGED <<sketch_out_states, derivations>>
  /\ cur' = cur + 1
  /\ UNCHANGED <<search_task, cpu_structure, sketch_pc, pnow>>
  /\ UNCHANGED <<searchVars, sampleVars, seededVars, pickVars, shareVars>>

\* line 893, then lines 865-866
NextFrontier ==
  /\ sketch_pc = "enumerate"
  /\ cur > Len(pnow)
  /\ pnow' = pnext
  /\ pnext' = <<>>
  /\ cur' = 1
  /\ sketch_pc' = IF pnext = <<>> THEN "rfactor_pass" ELSE "enumerate"
  /\ UNCHANGED <<search_task, cpu_structure, sketch_out_states, derivations>>
  /\ UNCHANGED <<searchVars, sampleVars, seededVars, pickVars, shareVars>>

\* lines 902-920
RfactorPass ==
  /\ sketch_pc = "rfactor_pass"
  /\ sketch_out_states' =
       [i \in DOMAIN sketch_out_states |-> RfactorSplitUndefined(sketch_out_states[i])]
  /\ sketch_pc' = "returned"
  /\ UNCHANGED <<search_task, cpu_structure, pnow, pnext, cur, derivations>>
  /\ UNCHANGED <<searchVars, sampleVars, seededVars, pickVars, shareVars>>

\* the caller has taken the sketches
GenerateSketchesReturned ==
  /\ sketch_pc = "returned"
  /\ sketch_pc' = "idle"
  /\ sketch_out_states' = <<>>
  /\ derivations' = <<>>
  /\ UNCHANGED <<search_task, cpu_structure, pnow, pnext, cur>>
  /\ UNCHANGED <<searchVars, sampleVars, seededVars, pickVars, shareVars>>

(***************************************************************************)
(* Search tasks: the compute DAG of each, as its initial state.            *)
(***************************************************************************)
\* a placeholder; the analyzer's is_strict_inlinable of it may be either
PlaceholderStage(name, strict_inlinable, extents) ==
  Stage(Op(name, {}, {}, FALSE, strict_inlinable, FALSE, FALSE, {}), "kPlaceholder",
        [k \in DOMAIN extents |-> Iterator("ax" \o ToString(k - 1), "kSpatial", extents[k])])

\* an elementwise operation over the axes of shape
ElementwiseStage(name, reads, is_output, strict_inlinable, attrs, shape) ==
  Stage(Op(name, reads, reads, is_output, strict_inlinable, FALSE, FALSE, attrs), "kCompute",
        [k \in DOMAIN shape |-> Iterator("ax" \o ToString(k - 1), "kSpatial", shape[k])])

\* an operation with spatial axes and reduction axes
ReductionStage(name, reads, ewise, is_output, needs_mlt, needs_rfactor, attrs, shape, reduce) ==
  Stage(Op(name, reads, ewise, is_output, FALSE, needs_mlt, needs_rfactor, attrs), "kCompute",
        [k \in DOMAIN shape |-> Iterator("ax" \o ToString(k - 1), "kSpatial", shape[k])]
          \o [k \in DOMAIN reduce |-> Iterator("k" \o ToString(k - 1), "kReduction", reduce[k])])

Task(name, stages) == [name |-> name, init_state |-> InitState(stages), num_cores |-> 4]

\* a single placeholder
TaskPlaceholder(strict_inlinable) ==
  Task("placeholder", <<PlaceholderStage("A", strict_inlinable, <<1024>>)>>)

\* A -> add -> relu (output), all of shape [n]
TaskChain(n) ==
  Task("chain",
       <<PlaceholderStage("A", TRUE, <<n>>),
         ElementwiseStage("add", {"A"}, FALSE, TRUE, {}, <<n>>),
         ElementwiseStage("relu", {"add"}, TRUE, TRUE, {}, <<n>>)>>)

\* elementwise operations only, no placeholder: fill -> exp -> neg (output)
TaskComputeOnly ==
  Task("compute_only",
       <<ElementwiseStage("fill", {}, FALSE, TRUE, {}, <<16, 16>>),
         ElementwiseStage("exp", {"fill"}, FALSE, TRUE, {}, <<16, 16>>),
         ElementwiseStage("neg", {"exp"}, TRUE, TRUE, {}, <<16, 16>>)>>)

\* A -> gather (not strict inlinable) -> relu (output); gather may have the
\* attr always_compute_inline
TaskGather(attrs) ==
  Task("gather",
       <<PlaceholderStage("A", FALSE, <<16>>),
         ElementwiseStage("gather", {"A"}, FALSE, FALSE, attrs, <<16>>),
         ElementwiseStage("relu", {"gather"}, TRUE, TRUE, {}, <<16>>)>>)

\* C = A x B
TaskMatmul(needs_rfactor, attrs) ==
  Task("matmul",
       <<PlaceholderStage("A", FALSE, <<4, 4>>),
         PlaceholderStage("B", FALSE, <<4, 4>>),
         ReductionStage("C", {"A", "B"}, {}, TRUE, TRUE, needs_rfactor, attrs, <<4, 4>>, <<4>>)>>)

\* conv2d followed by bias-add (output)
TaskConvBias ==
  Task("conv_bias",
       <<PlaceholderStage("data", FALSE, <<4, 4>>),
         PlaceholderStage("kernel", FALSE, <<4, 2>>),
         ReductionStage("conv", {"data", "kernel"}, {}, FALSE, TRUE, FALSE, {}, <<4, 4>>,
                        <<2, 2>>),
         PlaceholderStage("bias", FALSE, <<4>>),
         Stage(Op("bias_add", {"conv", "bias"}, {"conv"}, TRUE, TRUE, FALSE, FALSE, {}),
               "kCompute",
               <<Iterator("ax0", "kSpatial", 4), Iterator("ax1", "kSpatial", 4)>>)>>)

\* sum(A, axis = 1)
TaskSum ==
  Task("sum",
       <<PlaceholderStage("A", FALSE, <<4, 4>>),
         ReductionStage("sum", {"A"}, {}, TRUE, FALSE, TRUE, {}, <<4>>, <<4>>)>>)

\* out = f(A) over [128, 2, 2, 2], with the attr always_unroll naming ax0
TaskUnrolled ==
  Task("unrolled",
       <<PlaceholderStage("A", FALSE, <<128, 2, 2, 2>>),
         [ElementwiseStage("out", {"A"}, TRUE, TRUE, {"always_unroll"}, <<128, 2, 2, 2>>)
            EXCEPT !.op.always_unroll = {"ax0"}]>>)

Tasks ==
  {TaskPlaceholder(FALSE), TaskPlaceholder(TRUE), TaskChain(1024), TaskChain(16),
   TaskComputeOnly, TaskGather({}), TaskGather({"always_compute_inline"}),
   TaskMatmul(FALSE, {}), TaskMatmul(TRUE, {}), TaskMatmul(FALSE, {"no_cache_write"}),
   TaskConvBias, TaskSum}

\* params["multi_level_tiling.cpu_structure"] is one of
\* the default of the params
DefaultStructure == <<"S", "S", "R", "S", "R", "S">>
Structures == {DefaultStructure, <<"S", "R", "S">>, <<"R", "R", "S", "S">>}

\* no GenerateSketches call is followed step by step
SketchIdle ==
  /\ search_task = TaskPlaceholder(FALSE)
  /\ cpu_structure = <<"S", "S", "R", "S", "R", "S">>
  /\ sketch_pc = "idle"
  /\ pnow = <<>>
  /\ pnext = <<>>
  /\ cur = 1
  /\ sketch_out_states = <<>>
  /\ derivations = <<>>

\* no policy is sampling an init population from the sketches
SeededIdle ==
  /\ seed = [p \in {1, 2} |-> 0]
  /\ init_params = [max_innermost_split_factor |-> 1, max_vectorize_size |-> 1,
                    disable_change_compute_location |-> FALSE]
  /\ rand_gen = [p \in {1, 2} |-> 0]
  /\ init_pc = [p \in {1, 2} |-> "idle"]
  /\ init_out_size = [p \in {1, 2} |-> 0]
  /\ init_out_states = [p \in {1, 2} |-> <<>>]
  /\ init_fail_ct = [p \in {1, 2} |-> 0]
  /\ init_calls = [p \in {1, 2} |-> <<>>]

\* no PickStatesWithEpsGreedy call is followed iteration by iteration
PickIdle ==
  /\ best_states = <<>>
  /\ random_states = <<>>
  /\ pick_remaining_n_trials = 0
  /\ pick_pc = "idle"
  /\ offset_best = 0
  /\ offset_random = 0
  /\ pick_inputs = <<>>
  /\ pick_log = <<>>

\* no State is followed as a reference-counted object
ShareIdle ==
  /\ state_nodes = <<>>
  /\ objects = <<>>
  /\ frontier_refs = <<>>
  /\ sketch_refs = <<>>
  /\ population_refs = <<>>
  /\ share_pc = "idle"
  /\ share_i = 0
  /\ observed = [frontier |-> <<>>, sketches |-> <<>>]

(***************************************************************************)
(* The policy after construction (lines 705-736).                          *)
(***************************************************************************)
\* eps_greedy and use_measured_ratio are one of
Fractions == {Rat(0, 1), Rat(1, 1)}

PolicyInit ==
  /\ params \in [eps_greedy : Fractions, use_measured_ratio : Fractions,
                 population : 1..MaxPopulation, random_model : BOOLEAN]
  /\ num_measure_per_iter_ = 0
  /\ measured_states_set_ = {}
  /\ measured_states_vector_ = <<>>
  /\ measured_states_throughputs_ = <<>>
  /\ measurer = NewMeasurer
  /\ pc = "idle"
  /\ n_trials = 0
  /\ early_stopping_arg = 0
  /\ early_stopping = 0
  /\ num_random = 0
  /\ ct = 0
  /\ inputs = <<>>
  /\ results = <<>>
  /\ result = NullState
  /\ trace = <<>>
  /\ all_inputs = <<>>

\* no SampleInitPopulation call is followed step by step
SampleIdle ==
  /\ sketches = <<>>
  /\ max_innermost_split_factor = 1
  /\ sample_pc = "idle"
  /\ out_size = 0
  /\ out_states = <<>>
  /\ fail_ct = 0
  /\ samples = 0

Init ==
  /\ programs = 1..NumStates
  /\ PolicyInit
  /\ SampleIdle
  /\ SketchIdle
  /\ SeededIdle
  /\ PickIdle
  /\ ShareIdle

Next ==
  \/ \E n \in 0..MaxTrials, m \in PerIterValues : SearchNoMeasure(n, m)
  \/ \E n \in 0..MaxTrials, e \in EarlyStoppingValues, m \in PerIterValues :
       SearchBegin(n, e, m)
  \/ SearchOneRoundCrash
  \/ Round
  \/ LoopExit
  \/ MeasureBatch
  \/ SearchReturned

Spec == Init /\ [][Next]_vars

(***************************************************************************)
(* One Search call that enters the measuring loop, on a new policy.        *)
(***************************************************************************)
InitOneCall ==
  /\ programs = {2 * k - 1 : k \in 1..NumDistinct}
  /\ PolicyInit
  /\ SampleIdle
  /\ SketchIdle
  /\ SeededIdle
  /\ PickIdle
  /\ ShareIdle

NextOneCall ==
  \/ \E n \in 0..MaxTrials, e \in EarlyStoppingValues, m \in PerIterValues :
       SearchBegin(n, e, m)
  \/ Round
  \/ LoopExit
  \/ MeasureBatch

SpecOneCall == InitOneCall /\ [][NextOneCall]_vars

(***************************************************************************)
(* PickStatesWithEpsGreedy (lines 976-1021) followed iteration by          *)
(* iteration, on the arrays and the remaining_n_trials of its caller, with *)
(* the members it reads and writes.  The offsets count from 0 as in the    *)
(* code: the next entry of best_states is best_states[offset_best + 1].    *)
(***************************************************************************)
\* eps_greedy is one of
PickFractions == Fractions \cup {Rat(1, 2)}
\* the arrays handed in have one of these sizes
PickSizes == {0, 1, 2}
\* remaining_n_trials is one of
PickRemaining == {1, 2}
\* the states in the arrays: 1 and 2 have the same canonical string
PickPrograms == {1, 2, 3}
\* num_measure_per_iter_ is one of
PickPerIter == {1, 2, 3}

PickArrays == UNION {[1..n -> programs] : n \in PickSizes}

\* lines 976-983
PickBegin(best, random, remaining) ==
  /\ pick_pc = "idle"
  /\ best_states' = best
  /\ random_states' = random
  /\ pick_remaining_n_trials' = remaining
  /\ offset_best' = 0
  /\ offset_random' = 0
  /\ pick_inputs' = <<>>
  /\ pick_log' = <<>>
  /\ pick_pc' = "loop"
  /\ UNCHANGED <<searchVars, sampleVars, sketchVars, seededVars, shareVars>>

\* has_best, has_random and the list lines 991-1009 take the state from
PickNext ==
  PickFrom(Len(pick_inputs), NumGood, offset_best < Len(best_states),
           offset_random < Len(random_states))

\* one iteration that takes a state (lines 986-1017)
PickStep ==
  /\ pick_pc = "loop"
  /\ Len(pick_inputs) < PickCap(num_measure_per_iter_, pick_remaining_n_trials)
  /\ PickNext # "none"
  /\ \E state \in {IF PickNext = "best" THEN best_states[offset_best + 1]
                                        ELSE random_states[offset_random + 1]} :
       LET accepted == ~AlreadyMeasured(ToStr(state), measured_states_set_)
       IN /\ offset_best' = IF PickNext = "best" THEN offset_best + 1 ELSE offset_best
          /\ offset_random' = IF PickNext = "random" THEN offset_random + 1 ELSE offset_random
          /\ pick_log' = Append(pick_log,
                                [from |-> PickNext,
                                 index |-> IF PickNext = "best" THEN offset_best
                                                               ELSE offset_random,
                                 n_inputs |-> Len(pick_inputs),
                                 has_best |-> offset_best < Len(best_states),
                                 has_random |-> offset_random < Len(random_states),
                                 state |-> state,
                                 accepted |-> accepted])
          /\ IF accepted
               THEN /\ measured_states_set_' = measured_states_set_ \cup {ToStr(state)}
                    /\ measured_states_vector_' = Append(measured_states_vector_, state)
                    /\ pick_inputs' = Append(pick_inputs, state)
               ELSE UNCHANGED <<measured_states_set_, measured_states_vector_, pick_inputs>>
  /\ UNCHANGED <<best_states, random_states, pick_remaining_n_trials, pick_pc>>
  /\ UNCHANGED <<programs, params, num_measure_per_iter_, measured_states_throughputs_,
                 measurer, pc, n_trials, early_stopping, num_random, ct, inputs, results,
                 early_stopping_arg, result, trace, all_inputs>>
  /\ UNCHANGED <<sampleVars, sketchVars, seededVars, shareVars>>

\* the loop ends: its condition (line 985) is false or a break is taken
\* (lines 998 and 1007); line 1020 returns inputs
PickReturn ==
  /\ pick_pc = "loop"
  /\ \/ ~(Len(pick_inputs) < PickCap(num_measure_per_iter_, pick_remaining_n_trials))
     \/ PickNext = "none"
  /\ pick_pc' = "returned"
  /\ UNCHANGED <<best_states, random_states, pick_remaining_n_trials, offset_best, offset_random,
                 pick_inputs, pick_log>>
  /\ UNCHANGED <<searchVars, sampleVars, sketchVars, seededVars, shareVars>>

\* the caller has taken the inputs
PickReturned ==
  /\ pick_pc = "returned"
  /\ best_states' = <<>>
  /\ random_states' = <<>>
  /\ pick_remaining_n_trials' = 0
  /\ pick_pc' = "idle"
  /\ offset_best' = 0
  /\ offset_random' = 0
  /\ pick_inputs' = <<>>
  /\ pick_log' = <<>>
  /\ UNCHANGED <<searchVars, sampleVars, sketchVars, seededVars, shareVars>>

\* a policy in whose Search call nothing has been measured yet; Search has
\* stored its num_measure_per_iter argument in num_measure_per_iter_
InitPick ==
  /\ programs = PickPrograms
  /\ params \in [eps_greedy : PickFractions, use_measured_ratio : {Rat(0, 1)},
                 population : {1}, random_model : {TRUE}]
  /\ num_measure_per_iter_ \in PickPerIter
  /\ measured_states_set_ = {}
  /\ measured_states_vector_ = <<>>
  /\ measured_states_throughputs_ = <<>>
  /\ measurer = NewMeasurer
  /\ pc = "idle"
  /\ n_trials = 0
  /\ early_stopping_arg = 0
  /\ early_stopping = 0
  /\ num_random = 0
  /\ ct = 0
  /\ inputs = <<>>
  /\ results = <<>>
  /\ result = NullState
  /\ trace = <<>>
  /\ all_inputs = <<>>
  /\ SampleIdle
  /\ SketchIdle
  /\ SeededIdle
  /\ PickIdle
  /\ ShareIdle

NextPick ==
  \/ \E best \in PickArrays, random \in PickArrays, remaining \in PickRemaining :
       PickBegin(best, random, remaining)
  \/ PickStep
  \/ PickReturn
  \/ PickReturned

SpecPick == InitPick /\ [][NextPick]_vars

(***************************************************************************)
(* SampleInitPopulation with its init rules, on states given by their      *)
(* transform steps.  A state is the sequence of its steps; a Split step    *)
(* has an extent and lengths, of which any can be undefined.               *)
(***************************************************************************)
SplitStep(extent, lengths) == [kind |-> "Split", extent |-> extent, lengths |-> lengths]
\* a step that is no Split step (Fuse, Annotation, ComputeAt, Pragma, ...)
OtherStep == [kind |-> "Other", extent |-> Undefined, lengths |-> <<>>]

\* SplitFactorizationMemo::GetFactorizationSchemes(extent, n_lengths,
\* max_innermost_factor): the factorizations of extent into n_lengths + 1
\* positive integers with the innermost one at most max_innermost_factor; a
\* scheme is the n_lengths inner factors, the outermost one is what is left
GetFactorizationSchemes(extent, n_lengths, max_innermost_factor) ==
  {l \in [1..n_lengths -> 1..extent] :
     /\ extent % Product(l) = 0
     /\ l[n_lengths] <= max_innermost_factor}

\* variant: only the first length is looked at
AllDefinedFirstOnly(lengths) == lengths = <<>> \/ lengths[1] # Undefined
\* lines 309-315
AllDefined(lengths) == \A k \in DOMAIN lengths : lengths[k] # Undefined

\* lines 307-318: the steps InitFillTileSize rewrites
StepsToFill(state) ==
  {i \in DOMAIN state : state[i].kind = "Split" /\ ~AllDefined(state[i].lengths)}

\* line 320 holds at every step to fill
ExtentsDefined(state) == \A i \in StepsToFill(state) : state[i].extent # Undefined

\* lines 320-333: what a step can be rewritten to
FilledSteps(step, max_factor) ==
  IF step.kind = "Split" /\ ~AllDefined(step.lengths)
    THEN {SplitStep(step.extent, l) :
            l \in GetFactorizationSchemes(step.extent, Len(step.lengths), max_factor)}
    ELSE {step}

\* InitFillTileSize::Apply (lines 304-339), the states it can leave
InitFillTileSize(state, max_factor) ==
  {filled \in [DOMAIN state -> UNION {FilledSteps(state[i], max_factor) : i \in DOMAIN state}] :
     \A i \in DOMAIN state : filled[i] \in FilledSteps(state[i], max_factor)}

\* InitChangeComputeLocation, InitParallel, InitVectorization, InitUnroll
\* (lines 342-695): each returns kValid and appends steps, none a Split step
LaterInitRules(state) == {state, Append(state, OtherStep)}

\* lines 936-941 for one sample
ApplyInitRules(state, max_factor) ==
  UNION {LaterInitRules(filled) : filled \in InitFillTileSize(state, max_factor)}

\* lines 935-941: no Apply of the five init rules returns kInvalid (lines 338,
\* 347, 471, 542, 616, 693), valid stays true
InitRulesValid(state) == TRUE

\* variant: the loop goes on while either count is below out_size
SampleMoreEither(n_out, fails, size) == n_out < size \/ fails < size
\* line 930
SampleMore(n_out, fails, size) == n_out < size /\ fails < size

SampleBegin(size) ==
  /\ sample_pc = "idle"
  /\ out_size' = size
  /\ out_states' = <<>>
  /\ fail_ct' = 0
  /\ samples' = 0
  /\ sample_pc' = "loop"
  /\ UNCHANGED <<sketches, max_innermost_split_factor>>
  /\ UNCHANGED <<searchVars, sketchVars, seededVars, pickVars, shareVars>>

\* one iteration of the loop (lines 930-948)
SampleOne ==
  /\ sample_pc = "loop"
  /\ SampleMore(Len(out_states), fail_ct, out_size)
  /\ samples' = samples + 1
  /\ \E k \in DOMAIN sketches :
       IF ExtentsDefined(sketches[k])
         THEN \E tmp_s \in ApplyInitRules(sketches[k], max_innermost_split_factor) :
                /\ sample_pc' = "loop"
                /\ IF InitRulesValid(tmp_s)
                     THEN /\ out_states' = Append(out_states, tmp_s)
                          /\ UNCHANGED fail_ct
                     ELSE /\ fail_ct' = fail_ct + 1
                          /\ UNCHANGED out_states
         ELSE /\ sample_pc' = "fatal"                         \* CHECK(ps->extent)
              /\ UNCHANGED <<out_states, fail_ct>>
  /\ UNCHANGED <<sketches, max_innermost_split_factor, out_size>>
  /\ UNCHANGED <<searchVars, sketchVars, seededVars, pickVars, shareVars>>

\* lines 950-956
SampleReturn ==
  /\ sample_pc = "loop"
  /\ ~SampleMore(Len(out_states), fail_ct, out_size)
  /\ sample_pc' = "returned"
  /\ UNCHANGED <<sketches, max_innermost_split_factor, out_size, out_states, fail_ct, samples>>
  /\ UNCHANGED <<searchVars, sketchVars, seededVars, pickVars, shareVars>>

\* the caller has taken the returned Array
SampleReturned ==
  /\ sample_pc = "returned"
  /\ sample_pc' = "idle"
  /\ out_size' = 0
  /\ out_states' = <<>>
  /\ fail_ct' = 0
  /\ samples' = 0
  /\ UNCHANGED <<sketches, max_innermost_split_factor>>
  /\ UNCHANGED <<searchVars, sketchVars, seededVars, pickVars, shareVars>>

\* the sketches of a task
LengthLists ==
  UNION {[1..n -> {Undefined, 2}] : n \in LengthCounts}
SketchSplits ==
  {SplitStep(extent, lengths) : extent \in 0..MaxExtent, lengths \in LengthLists}
\* one Split step, alone, before or after another step, or twice
Sketches ==
  UNION {{<<a>>, <<a, OtherStep>>, <<OtherStep, a>>, <<a, a>>} : a \in SketchSplits}

InitSample ==
  /\ programs = 1..NumStates
  /\ params = [eps_greedy |-> Rat(0, 1), use_measured_ratio |-> Rat(0, 1),
               population |-> 1, random_model |-> TRUE]
  /\ num_measure_per_iter_ = 0
  /\ measured_states_set_ = {}
  /\ measured_states_vector_ = <<>>
  /\ measured_states_throughputs_ = <<>>
  /\ measurer = NewMeasurer
  /\ pc = "idle"
  /\ n_trials = 0
  /\ early_stopping_arg = 0
  /\ early_stopping = 0
  /\ num_random = 0
  /\ ct = 0
  /\ inputs = <<>>
  /\ results = <<>>
  /\ result = NullState
  /\ trace = <<>>
  /\ all_inputs = <<>>
  /\ sketches \in {<<a>> : a \in Sketches} \cup {<<a, <<OtherStep>>>> : a \in Sketches}
  /\ max_innermost_split_factor \in {1, 2}
  /\ sample_pc = "idle"
  /\ out_size = 0
  /\ out_states = <<>>
  /\ fail_ct = 0
  /\ samples = 0
  /\ SketchIdle
  /\ SeededIdle
  /\ PickIdle
  /\ ShareIdle

NextSample ==
  \/ \E size \in OutSizes : SampleBegin(size)
  \/ SampleOne
  \/ SampleReturn
  \/ SampleReturned

SpecSample == InitSample /\ [][NextSample]_vars

(***************************************************************************)
(* GenerateSketches calls on the search tasks.                             *)
(***************************************************************************)
InitSketch ==
  /\ programs = 1..NumStates
  /\ params = [eps_greedy |-> Rat(0, 1), use_measured_ratio |-> Rat(0, 1),
               population |-> 1, random_model |-> TRUE]
  /\ num_measure_per_iter_ = 0
  /\ measured_states_set_ = {}
  /\ measured_states_vector_ = <<>>
  /\ measured_states_throughputs_ = <<>>
  /\ measurer = NewMeasurer
  /\ pc = "idle"
  /\ n_trials = 0
  /\ early_stopping_arg = 0
  /\ early_stopping = 0
  /\ num_random = 0
  /\ ct = 0
  /\ inputs = <<>>
  /\ results = <<>>
  /\ result = NullState
  /\ trace = <<>>
  /\ all_inputs = <<>>
  /\ SampleIdle
  /\ search_task \in Tasks
  /\ cpu_structure \in Structures
  /\ sketch_pc = "idle"
  /\ pnow = <<>>
  /\ pnext = <<>>
  /\ cur = 1
  /\ sketch_out_states = <<>>
  /\ derivations = <<>>
  /\ SeededIdle
  /\ PickIdle
  /\ ShareIdle

NextSketch ==
  \/ GenerateSketchesBegin
  \/ ExpandState
  \/ NextFrontier
  \/ RfactorPass
  \/ GenerateSketchesReturned

SpecSketch == InitSketch /\ [][NextSketch]_vars

\* where a GenerateSketches call is
sketchPosition == <<sketch_pc, cur>>

\* the step ExpandState takes, read off the position: ExpandState can be
\* taken exactly when the for loop of line 868 has a state left, and it moves
\* the loop to the next state
ExpandStateStep ==
  /\ sketch_pc = "enumerate"
  /\ cur <= Len(pnow)
  /\ cur' = cur + 1
  /\ sketch_pc' = sketch_pc

\* a GenerateSketches call that has started goes on: the thread that runs it
\* takes each step of it that can be taken
SpecSketchFair ==
  /\ SpecSketch
  /\ WF_sketchPosition(ExpandStateStep)
  /\ WF_sketchPosition(NextFrontier)
  /\ WF_sketchPosition(RfactorPass)

(***************************************************************************)
(* The random number generator of a policy.  rand_gen is std::mt19937      *)
(* constructed from the seed (line 711): the numbers it gives are a        *)
(* function of the seed and of how many were drawn before.  A linear       *)
(* congruential stream over a small modulus stands for it here.            *)
(***************************************************************************)
RandModulus == 65537
RandMultiplier == 75
RandIncrement == 74

\* variant: the generator is seeded from the identity of the policy
RandGenUnseeded(seed_value, policy) == (policy * 7919) % RandModulus
\* std::mt19937(seed), line 711
RandGen(seed_value, policy) == (seed_value * 7919) % RandModulus

\* the generator after one call
RandStep(g) == (g * RandMultiplier + RandIncrement) % RandModulus

\* (policy->rand_gen)() % n
Rand(g, n) == [value |-> RandStep(g) % n, rand_gen |-> RandStep(g)]

(***************************************************************************)
(* InferBound (ComputeDAG::InferBound) and the queries of utils.h the init *)
(* rules make.  InferBound gives every iterator its extent: the stages are *)
(* rebuilt from the steps with the ranges kept, and in a stage computed at *)
(* an iterator of a target the outermost part of each axis covers what the *)
(* loops of the target inside that iterator read of the axis.              *)
(***************************************************************************)
\* GetExtent: -1 when the range is not known
GetExtent(it) == IF it.extent = Undefined THEN -1 ELSE it.extent

HasAnnotatedIter(stage, annotation) ==
  \E k \in DOMAIN stage.iters : stage.iters[k].annotation = annotation

StrEndsWith(s, suffix) ==
  Len(s) >= Len(suffix) /\ SubSeq(s, Len(s) - Len(suffix) + 1, Len(s)) = suffix

IsDigit(c) == c \in {"0", "1", "2", "3", "4", "5", "6", "7", "8", "9"}

\* ExtractOriginalIterators: the pieces of the name between '@' and '.' that
\* do not start with a digit
RECURSIVE ExtractOriginalIteratorsFrom(_, _, _)
ExtractOriginalIteratorsFrom(name, last_pos, i) ==
  LET piece == SubSeq(name, last_pos, i - 1)
      found == IF piece # "" /\ ~IsDigit(SubSeq(piece, 1, 1)) THEN {piece} ELSE {}
  IN IF i > Len(name) THEN found
     ELSE IF SubSeq(name, i, i) \in {"@", "."}
            THEN found \cup ExtractOriginalIteratorsFrom(name, i + 1, i + 1)
            ELSE ExtractOriginalIteratorsFrom(name, last_pos, i + 1)

ExtractOriginalIterators(name) == ExtractOriginalIteratorsFrom(name, 1, 1)

\* the axis of the operation an iterator comes from, when it is a single one
OriginalAxis(it) ==
  LET names == ExtractOriginalIterators(it.name)
  IN IF Cardinality(names) = 1 THEN CHOOSE n \in names : TRUE ELSE it.name

\* the step applied with the ranges of the stage kept
ApplyStepKeepRanges(state, step) ==
  LET next == ApplyStep(state, step)
  IN IF step.kind \in {"ComputeAt", "ComputeRoot"}
       THEN WithStage(next, step.stage_id,
                      [StageAt(next, step.stage_id)
                         EXCEPT !.iters = StageAt(state, step.stage_id).iters])
       ELSE next

RECURSIVE ReplayKeepRanges(_, _)
ReplayKeepRanges(init, steps) ==
  IF steps = <<>> THEN init
  ELSE ReplayKeepRanges(
         [ApplyStepKeepRanges(init, Head(steps))
            EXCEPT !.transform_steps = Append(init.transform_steps, Head(steps))],
         Tail(steps))

ExtentsOf(iters) == [k \in DOMAIN iters |-> iters[k].extent]

\* the iterators of a stage in its loop nest
RECURSIVE InferredIters(_, _)
InferredIters(full, stage_id) ==
  LET stage == StageAt(full, stage_id)
  IN IF stage.compute_at # "kIter" \/ ~IsAttached(full, stage_id) THEN stage.iters
     ELSE LET e == CHOOSE x \in full.stage_to_attach_iter : x[1] = stage_id
              target_iters == InferredIters(full, e[2])
              inside == SubSeq(target_iters, e[3] + 2, Len(target_iters))
              of_axis(iters, axis) ==
                SelectSeq(iters, LAMBDA it : it.iter_kind = "kSpatial" /\ OriginalAxis(it) = axis)
              region(axis) ==
                IF ElementwiseMatch(full, stage_id, e[2])
                  THEN Product(ExtentsOf(of_axis(inside, axis)))
                  ELSE Product(ExtentsOf(of_axis(stage.iters, axis)))
              is_outer(it) == it.name = OriginalAxis(it) \/ it.name = OriginalAxis(it) \o ".0"
              inner(it) ==
                Product(ExtentsOf(SelectSeq(of_axis(stage.iters, OriginalAxis(it)),
                                            LAMBDA o : o.name # it.name)))
          IN [k \in DOMAIN stage.iters |->
                LET it == stage.iters[k]
                IN IF it.iter_kind = "kSpatial" /\ is_outer(it)
                     THEN [it EXCEPT !.extent = CeilDiv(region(OriginalAxis(it)), inner(it))]
                     ELSE it]

WithInferredIters(full) ==
  [full EXCEPT
     !.stages = [k \in DOMAIN full.stages |->
                   [full.stages[k] EXCEPT !.iters = InferredIters(full, k - 1)]]]

InferBound(task, state) ==
  WithInferredIters(ReplayKeepRanges(task.init_state, state.transform_steps))

(***************************************************************************)
(* The rules of the init population (lines 302-695).  A rule is given the  *)
(* state and the generator of the policy and gives back both, with the     *)
(* ResultKind (every rule returns kValid; "fatal" is a failed CHECK).      *)
(***************************************************************************)
RuleResult(state, g, kind) == [state |-> state, rand_gen |-> g, kind |-> kind]

LexLess(a, b) ==
  \E k \in DOMAIN a : a[k] < b[k] /\ \A j \in 1..(k - 1) : a[j] = b[j]

\* the sequences of the set in lexicographic order
RECURSIVE Sorted(_)
Sorted(set) ==
  IF set = {} THEN <<>>
  ELSE LET first == CHOOSE a \in set : \A b \in set \ {a} : LexLess(a, b)
       IN <<first>> \o Sorted(set \ {first})

\* the vector GetFactorizationSchemes returns
FactorizationSchemes(extent, n_lengths, max_innermost_factor) ==
  Sorted(GetFactorizationSchemes(extent, n_lengths, max_innermost_factor))

\* lines 326-333: one of the schemes is drawn and stored in the step
FilledWith(state, step_id, candidate_lens, r) ==
  RuleResult([state EXCEPT !.transform_steps[step_id].lengths = candidate_lens[r.value + 1]],
             r.rand_gen, "kValid")

FilledStep(state, step_id, g, candidate_lens) ==
  FilledWith(state, step_id, candidate_lens, Rand(g, Len(candidate_lens)))

\* lines 307-335, from step step_id (counted from 1) on
RECURSIVE FillTileSizeFrom(_, _, _)
FillTileSizeFrom(filled, step_id, max_factor) ==
  IF step_id > Len(filled.state.transform_steps) THEN filled
  ELSE LET ps == filled.state.transform_steps[step_id]
       IN IF ps.kind # "Split" \/ AllDefined(ps.lengths)
            THEN FillTileSizeFrom(filled, step_id + 1, max_factor)
          ELSE IF ps.extent = Undefined
            THEN RuleResult(filled.state, filled.rand_gen, "fatal")
          ELSE FillTileSizeFrom(
                 FilledStep(filled.state, step_id, filled.rand_gen,
                            FactorizationSchemes(ps.extent, Len(ps.lengths), max_factor)),
                 step_id + 1, max_factor)

\* InitFillTileSize::Apply on a loop state: only the steps are rewritten
InitFillTileSizeApply(state, g, max_factor) ==
  FillTileSizeFrom(RuleResult(state, g, "kValid"), 1, max_factor)

\* lines 381-414: the attachment points in the target stage, from iterator i on
RECURSIVE TargetCandidates(_, _, _, _, _, _)
TargetCandidates(state, target_stage_id, i, visited_reduce, to_unroll_name_set, candidates) ==
  LET target_stage == StageAt(state, target_stage_id)
  IN IF i >= Len(target_stage.iters) THEN candidates
     ELSE LET target_iter == IterAt(target_stage, i)
              reduce == target_iter.iter_kind = "kReduction"
              visited == visited_reduce \/ reduce
              rest(found) == TargetCandidates(state, target_stage_id, i + 1, visited,
                                              to_unroll_name_set, found)
          IN IF reduce /\ ~IsTiled(target_stage) THEN candidates
             ELSE IF target_iter.iter_kind = "kSpatial" /\ visited_reduce THEN candidates
             ELSE IF target_iter.name \in to_unroll_name_set THEN candidates
             ELSE IF GetExtent(target_iter) = 1 THEN rest(candidates)
             ELSE IF /\ target_stage.compute_at = "kIter"
                     /\ target_iter.iter_kind = "kSpatial"
                     /\ StrEndsWith(target_iter.name, ".0")
                    THEN rest(candidates)
             ELSE IF HasAttachedStages(state, target_stage_id, i)
                    THEN Append(candidates, <<target_stage_id, i>>)
                    ELSE rest(Append(candidates, <<target_stage_id, i>>))

\* lines 430-448: the attachment points in the stage the target is computed at
RECURSIVE TargetTargetCandidates(_, _, _, _, _)
TargetTargetCandidates(state, target_target_stage_id, i, to_unroll_name_set, candidates) ==
  LET target_target_stage == StageAt(state, target_target_stage_id)
  IN IF i >= Len(target_target_stage.iters) THEN candidates
     ELSE LET target_target_iter == IterAt(target_target_stage, i)
              rest(found) == TargetTargetCandidates(state, target_target_stage_id, i + 1,
                                                    to_unroll_name_set, found)
          IN IF \/ target_target_iter.iter_kind = "kReduction"
                \/ HasAttachedStages(state, target_target_stage_id, i)
               THEN candidates
             ELSE IF target_target_iter.name \in to_unroll_name_set THEN candidates
             ELSE IF GetExtent(target_target_iter) = 1 THEN rest(candidates)
             ELSE rest(Append(candidates, <<target_target_stage_id, i>>))

\* GetIterNameSetParam(attrs, always_unroll), empty when the attr is not there
AlwaysUnrollNames(stage) ==
  IF "always_unroll" \in stage.op.attrs THEN stage.op.always_unroll ELSE {}

\* lines 367-449
ComputeLocationCandidates(state, target_stage_id) ==
  LET target_stage == StageAt(state, target_stage_id)
      in_target == TargetCandidates(state, target_stage_id, 0, FALSE,
                                    AlwaysUnrollNames(target_stage), <<>>)
  IN IF target_stage.compute_at = "kIter"
       THEN LET target_target_stage_id == AttachTargetStage(state, target_stage_id)
            IN TargetTargetCandidates(state, target_target_stage_id, 0,
                                      AlwaysUnrollNames(StageAt(state, target_target_stage_id)),
                                      in_target)
       ELSE in_target

\* variant: the inline option inlines a stage whether it is attached or not
ChosenLocationInlineUnattached(state, stage_id, candidates, choice) ==
  IF choice = 0
    THEN (IF ~HasReduceIter(StageAt(state, stage_id))
            THEN compute_inline(state, stage_id) ELSE state)
  ELSE IF choice = 1 THEN compute_root(state, stage_id)
  ELSE compute_at(state, stage_id, candidates[choice - 1][1], candidates[choice - 1][2])
\* lines 453-467
ChosenLocation(state, stage_id, candidates, choice) ==
  IF choice = 0
    THEN (IF ~HasReduceIter(StageAt(state, stage_id)) /\ IsAttached(state, stage_id)
            THEN compute_inline(state, stage_id) ELSE state)
  ELSE IF choice = 1 THEN compute_root(state, stage_id)
  ELSE compute_at(state, stage_id, candidates[choice - 1][1], candidates[choice - 1][2])

\* lines 451-467
LocationDrawn(state, stage_id, candidates, r) ==
  RuleResult(ChosenLocation(state, stage_id, candidates, r.value), r.rand_gen, "kValid")

RandomLocation(state, stage_id, g, candidates) ==
  LocationDrawn(state, stage_id, candidates, Rand(g, Len(candidates) + 2))

\* lines 350-468, from stage_id down
RECURSIVE ChangeComputeLocationFrom(_, _)
ChangeComputeLocationFrom(changed, stage_id) ==
  IF stage_id < 0 THEN changed
  ELSE LET state == changed.state
           stage == StageAt(state, stage_id)
           target_stage_id == GetSingleConsumerId(state, stage_id)
       IN IF \/ stage.op_type = "kPlaceholder"
             \/ stage.compute_at = "kInlined"
             \/ IsTiled(stage)
             \/ NeedsMultilevelTiling(state, stage_id)
             \/ target_stage_id < 0
            THEN ChangeComputeLocationFrom(changed, stage_id - 1)
            ELSE ChangeComputeLocationFrom(
                   RandomLocation(state, stage_id, changed.rand_gen,
                                  ComputeLocationCandidates(state, target_stage_id)),
                   stage_id - 1)

\* line 470
InferBoundOf(task, changed) == [changed EXCEPT !.state = InferBound(task, @)]

\* InitChangeComputeLocation::Apply (lines 344-472)
InitChangeComputeLocationApply(task, state, g, disable_change_compute_location) ==
  IF disable_change_compute_location THEN RuleResult(state, g, "kValid")
  ELSE InferBoundOf(task, ChangeComputeLocationFrom(RuleResult(state, g, "kValid"),
                                                   NumStages(state) - 1))

\* variant: an iterator that takes the degree over the limit is not taken
RECURSIVE ParallelScanWithinDegree(_, _, _, _, _, _)
ParallelScanWithinDegree(state, stage_id, iter_id, to_fuse, parallel_degree, num_cores) ==
  LET stage == StageAt(state, stage_id)
      here == [iter_id |-> iter_id, to_fuse |-> to_fuse, parallel_degree |-> parallel_degree]
  IN IF iter_id >= Len(stage.iters) THEN here
     ELSE LET it == IterAt(stage, iter_id)
              taken == [iter_id |-> iter_id, to_fuse |-> Append(to_fuse, iter_id),
                        parallel_degree |-> parallel_degree * GetExtent(it)]
          IN IF it.iter_kind = "kReduction" \/ it.annotation # "kNone" THEN here
             ELSE IF taken.parallel_degree > num_cores * 16 THEN here
             ELSE IF HasAttachedStages(state, stage_id, iter_id) THEN taken
             ELSE ParallelScanWithinDegree(state, stage_id, iter_id + 1, taken.to_fuse,
                                           taken.parallel_degree, num_cores)
\* lines 491-510: where the loop stops, what it collected
RECURSIVE ParallelScan(_, _, _, _, _, _)
ParallelScan(state, stage_id, iter_id, to_fuse, parallel_degree, num_cores) ==
  LET stage == StageAt(state, stage_id)
      here == [iter_id |-> iter_id, to_fuse |-> to_fuse, parallel_degree |-> parallel_degree]
  IN IF iter_id >= Len(stage.iters) THEN here
     ELSE LET it == IterAt(stage, iter_id)
              taken == [iter_id |-> iter_id, to_fuse |-> Append(to_fuse, iter_id),
                        parallel_degree |-> parallel_degree * GetExtent(it)]
          IN IF it.iter_kind = "kReduction" \/ it.annotation # "kNone" THEN here
             ELSE IF taken.parallel_degree > num_cores * 16 THEN taken
             ELSE IF HasAttachedStages(state, stage_id, iter_id) THEN taken
             ELSE ParallelScan(state, stage_id, iter_id + 1, taken.to_fuse,
                               taken.parallel_degree, num_cores)

\* the ids of a set of stages in increasing order
RECURSIVE Ascending(_)
Ascending(ids) ==
  IF ids = {} THEN <<>>
  ELSE LET least == CHOOSE a \in ids : \A b \in ids : a <= b
       IN <<least>> \o Ascending(ids \ {least})

\* lines 523-530
ParallelFused(state, stage_id, to_fuse) ==
  IF to_fuse = <<>> THEN state
  ELSE IF Len(to_fuse) = 1 THEN annotate(state, stage_id, to_fuse[1], "parallel")
  ELSE annotate(fuse(state, stage_id, to_fuse), stage_id, to_fuse[1], "parallel")

\* the lambda annotate_parallel (lines 482-531); AnnotateParallelAll is the
\* loop of lines 516-518 over the stages attached at the iterator
RECURSIVE AnnotateParallel(_, _, _, _)
RECURSIVE AnnotateParallelAll(_, _, _)
AnnotateParallel(state, stage_id, iter_offset, num_cores) ==
  LET scan == ParallelScan(state, stage_id, iter_offset, <<>>, 1, num_cores)
      inner ==
        IF scan.parallel_degree = 1 /\ HasAttachedStages(state, stage_id, scan.iter_id)
          THEN AnnotateParallel(
                 AnnotateParallelAll(
                   state, Ascending(AttachedStages(state, stage_id, scan.iter_id)), num_cores),
                 stage_id, scan.iter_id + 1, num_cores)
          ELSE state
  IN ParallelFused(inner, stage_id, scan.to_fuse)
AnnotateParallelAll(state, stage_ids, num_cores) ==
  IF stage_ids = <<>> THEN state
  ELSE AnnotateParallelAll(AnnotateParallel(state, Head(stage_ids), 0, num_cores),
                           Tail(stage_ids), num_cores)

\* a variant of ParallelFrom that does not skip the placeholders
RECURSIVE ParallelFromPlaceholdersToo(_, _, _)
ParallelFromPlaceholdersToo(state, stage_id, num_cores) ==
  IF stage_id >= NumStages(state) THEN state
  ELSE LET stage == StageAt(state, stage_id)
       IN IF stage.compute_at # "kRoot"
            THEN ParallelFromPlaceholdersToo(state, stage_id + 1, num_cores)
            ELSE ParallelFromPlaceholdersToo(AnnotateParallel(state, stage_id, 0, num_cores),
                                             stage_id + 1, num_cores)

\* lines 533-540, from stage_id on
RECURSIVE ParallelFrom(_, _, _)
ParallelFrom(state, stage_id, num_cores) ==
  IF stage_id >= NumStages(state) THEN state
  ELSE LET stage == StageAt(state, stage_id)
       IN IF stage.compute_at # "kRoot" \/ stage.op_type = "kPlaceholder"
            THEN ParallelFrom(state, stage_id + 1, num_cores)
            ELSE ParallelFrom(AnnotateParallel(state, stage_id, 0, num_cores),
                              stage_id + 1, num_cores)

\* InitParallel::Apply (lines 477-543)
InitParallelApply(task, state, g) ==
  RuleResult(ParallelFrom(state, 0, task.num_cores), g, "kValid")

\* lines 571-601: the number of innermost iterators that can be fused
RECURSIVE NumFusible(_, _, _, _, _)
NumFusible(state, stage_id, num_fusible, cum_length_prod, max_vectorize_size) ==
  LET stage == StageAt(state, stage_id)
      iter_id == Len(stage.iters) - 1 - num_fusible
  IN IF num_fusible >= Len(stage.iters) THEN num_fusible
     ELSE IF HasAttachedStages(state, stage_id, iter_id) THEN num_fusible
     ELSE LET it == IterAt(stage, iter_id)
              prod == cum_length_prod * GetExtent(it)
          IN IF \/ it.iter_kind = "kReduction"
                \/ it.annotation # "kNone"
                \/ it.name \in AlwaysUnrollNames(stage)
               THEN num_fusible
             ELSE IF IsTiled(stage) /\ num_fusible # 0 THEN num_fusible
             ELSE IF prod > max_vectorize_size THEN num_fusible
             ELSE NumFusible(state, stage_id, num_fusible + 1, prod, max_vectorize_size)

\* lines 549-614, from stage_id on
RECURSIVE VectorizationFrom(_, _, _, _)
VectorizationFrom(state, stage_id, g, max_vectorize_size) ==
  IF stage_id >= NumStages(state) THEN RuleResult(state, g, "kValid")
  ELSE LET stage == StageAt(state, stage_id)
           n == Len(stage.iters)
           fusible == NumFusible(state, stage_id, 0, 1, max_vectorize_size)
           r == IF fusible > 1 THEN Rand(g, fusible - 1) ELSE [value |-> 0, rand_gen |-> g]
           num_fusible == IF fusible > 1 THEN 1 + r.value ELSE fusible
       IN IF \/ stage.compute_at = "kInlined"
             \/ stage.op_type = "kPlaceholder"
             \/ HasAnnotatedIter(stage, "tensorize")
            THEN VectorizationFrom(state, stage_id + 1, g, max_vectorize_size)
          ELSE IF num_fusible = 1
            THEN VectorizationFrom(annotate(state, stage_id, n - 1, "vectorize"),
                                   stage_id + 1, r.rand_gen, max_vectorize_size)
          ELSE IF num_fusible > 1
            THEN VectorizationFrom(
                   annotate(fuse(state, stage_id,
                                 [k \in 1..num_fusible |-> n - num_fusible + k - 1]),
                            stage_id, n - num_fusible, "vectorize"),
                   stage_id + 1, r.rand_gen, max_vectorize_size)
          ELSE VectorizationFrom(state, stage_id + 1, r.rand_gen, max_vectorize_size)

\* InitVectorization::Apply (lines 548-617)
InitVectorizationApply(state, g, max_vectorize_size) ==
  VectorizationFrom(state, 0, g, max_vectorize_size)

auto_unroll_configs == <<0, 16, 64, 512>>

\* lines 641-664: the iterators of the innermost tile listed in the attr are
\* unrolled, from iterator n down
RECURSIVE UnrollInner(_, _, _, _)
UnrollInner(state, stage_id, n, visited_names) ==
  IF n < 0 THEN state
  ELSE LET stage == StageAt(state, stage_id)
           it == IterAt(stage, n)
           name == ExtractOriginalIterators(it.name)
       IN IF name \subseteq visited_names THEN state
          ELSE UnrollInner(
                 IF /\ Cardinality(name) = 1
                    /\ name \subseteq stage.op.always_unroll_inner
                    /\ it.annotation = "kNone"
                   THEN annotate(state, stage_id, n, "unroll") ELSE state,
                 stage_id, n - 1, visited_names \cup name)

\* lines 673-680
RECURSIVE UnrollListed(_, _, _)
UnrollListed(state, stage_id, n) ==
  IF n < 0 THEN state
  ELSE UnrollListed(
         IF IterAt(StageAt(state, stage_id), n).name \in StageAt(state, stage_id).op.always_unroll
           THEN annotate(state, stage_id, n, "unroll") ELSE state,
         stage_id, n - 1)

\* lines 625-691, from stage_id on
RECURSIVE UnrollFrom(_, _, _)
UnrollFrom(state, stage_id, g) ==
  IF stage_id >= NumStages(state) THEN RuleResult(state, g, "kValid")
  ELSE LET stage == StageAt(state, stage_id)
           n == Len(stage.iters) - 1
           inner == IF "always_unroll_inner" \in stage.op.attrs
                      THEN UnrollInner(state, stage_id, n, {}) ELSE state
           listed == IF "always_unroll" \in stage.op.attrs
                       THEN UnrollListed(inner, stage_id, n) ELSE inner
           r == Rand(g, Len(auto_unroll_configs))
       IN IF stage.compute_at = "kInlined" \/ stage.op_type = "kPlaceholder"
            THEN UnrollFrom(state, stage_id + 1, g)
          ELSE IF HasReduceIter(stage)
            THEN UnrollFrom(pragma(listed, stage_id, 0,
                                   "auto_unroll_max_step$"
                                     \o ToString(auto_unroll_configs[r.value + 1])),
                            stage_id + 1, r.rand_gen)
          ELSE UnrollFrom(listed, stage_id + 1, g)

\* InitUnroll::Apply (lines 622-694)
InitUnrollApply(state, g) == UnrollFrom(state, 0, g)

\* init_rules in their order (lines 729-733), applied as lines 936-941 do:
\* a rule that does not return kValid ends the sample
ThenRule(applied, Rule(_, _)) ==
  IF applied.kind # "kValid" THEN applied ELSE Rule(applied.state, applied.rand_gen)

ApplyInitRulesSeeded(task, par, state, g) ==
  ThenRule(
    ThenRule(
      ThenRule(
        ThenRule(InitFillTileSizeApply(state, g, par.max_innermost_split_factor),
                 LAMBDA s, gen : InitChangeComputeLocationApply(
                                   task, s, gen, par.disable_change_compute_location)),
        LAMBDA s, gen : InitParallelApply(task, s, gen)),
      LAMBDA s, gen : InitVectorizationApply(s, gen, par.max_vectorize_size)),
    LAMBDA s, gen : InitUnrollApply(s, gen))

(***************************************************************************)
(* SampleInitPopulation (lines 923-957) of two policies built with the     *)
(* same task and params, each with its own generator, on the sketches      *)
(* GenerateSketches returned.                                              *)
(***************************************************************************)
Policies == {1, 2}
\* the seeds the policies are built with
Seeds == {0, 1}
\* the out_size of a call
CallSizes == {1, 2}
\* the calls a policy has made before it starts another
CallsBefore == {0, 1}

\* lines 932-941: the sketch is drawn, the rules are applied to a copy
SampleOneSeeded(task, par, sketch_states, r) ==
  ApplyInitRulesSeeded(task, par, sketch_states[r.value + 1], r.rand_gen)

\* a policy starts a call
SampleInitPopulationBegin(p, size) ==
  /\ sketch_pc = "returned"
  /\ init_pc[p] \in {"idle", "returned"}
  /\ Len(init_calls[p]) \in CallsBefore
  /\ init_pc' = [init_pc EXCEPT ![p] = "loop"]
  /\ init_out_size' = [init_out_size EXCEPT ![p] = size]
  /\ init_out_states' = [init_out_states EXCEPT ![p] = <<>>]
  /\ init_fail_ct' = [init_fail_ct EXCEPT ![p] = 0]
  /\ init_calls' = [init_calls EXCEPT ![p] = Append(@, size)]
  /\ UNCHANGED <<seed, init_params, rand_gen>>
  /\ UNCHANGED <<searchVars, sampleVars, sketchVars, pickVars, shareVars>>

\* one iteration of the loop of lines 930-948
SampleInitPopulationStep(p) ==
  /\ init_pc[p] = "loop"
  /\ SampleMore(Len(init_out_states[p]), init_fail_ct[p], init_out_size[p])
  /\ \E tmp_s \in {SampleOneSeeded(search_task, init_params, sketch_out_states,
                                     Rand(rand_gen[p], Len(sketch_out_states)))} :
        /\ rand_gen' = [rand_gen EXCEPT ![p] = tmp_s.rand_gen]
        /\ init_pc' = [init_pc EXCEPT ![p] = IF tmp_s.kind = "fatal" THEN "fatal" ELSE "loop"]
        /\ init_out_states' =
             [init_out_states EXCEPT
                ![p] = IF tmp_s.kind = "kValid" THEN Append(@, tmp_s.state) ELSE @]
        /\ init_fail_ct' =
             [init_fail_ct EXCEPT ![p] = IF tmp_s.kind = "kInvalid" THEN @ + 1 ELSE @]
  /\ UNCHANGED <<seed, init_params, init_out_size, init_calls>>
  /\ UNCHANGED <<searchVars, sampleVars, sketchVars, pickVars, shareVars>>

\* lines 950-956
SampleInitPopulationReturn(p) ==
  /\ init_pc[p] = "loop"
  /\ ~SampleMore(Len(init_out_states[p]), init_fail_ct[p], init_out_size[p])
  /\ init_pc' = [init_pc EXCEPT ![p] = "returned"]
  /\ UNCHANGED <<seed, init_params, rand_gen, init_out_size, init_out_states,
                 init_fail_ct, init_calls>>
  /\ UNCHANGED <<searchVars, sampleVars, sketchVars, pickVars, shareVars>>

SeededTasks ==
  {TaskChain(1024), TaskGather({}), TaskMatmul(FALSE, {}), TaskConvBias, TaskSum,
   TaskUnrolled}

InitSeeded ==
  /\ programs = 1..NumStates
  /\ params = [eps_greedy |-> Rat(0, 1), use_measured_ratio |-> Rat(0, 1),
               population |-> 1, random_model |-> TRUE]
  /\ num_measure_per_iter_ = 0
  /\ measured_states_set_ = {}
  /\ measured_states_vector_ = <<>>
  /\ measured_states_throughputs_ = <<>>
  /\ measurer = NewMeasurer
  /\ pc = "idle"
  /\ n_trials = 0
  /\ early_stopping_arg = 0
  /\ early_stopping = 0
  /\ num_random = 0
  /\ ct = 0
  /\ inputs = <<>>
  /\ results = <<>>
  /\ result = NullState
  /\ trace = <<>>
  /\ all_inputs = <<>>
  /\ SampleIdle
  /\ search_task \in SeededTasks
  /\ cpu_structure = DefaultStructure
  /\ sketch_pc = "idle"
  /\ pnow = <<>>
  /\ pnext = <<>>
  /\ cur = 1
  /\ sketch_out_states = <<>>
  /\ derivations = <<>>
  /\ seed \in {f \in [Policies -> Seeds] : f[1] <= f[2]}
  /\ init_params \in [max_innermost_split_factor : {2},
                      max_vectorize_size : {16},
                      disable_change_compute_location : BOOLEAN]
  /\ rand_gen = [p \in Policies |-> RandGen(seed[p], p)]
  /\ init_pc = [p \in Policies |-> "idle"]
  /\ init_out_size = [p \in Policies |-> 0]
  /\ init_out_states = [p \in Policies |-> <<>>]
  /\ init_fail_ct = [p \in Policies |-> 0]
  /\ init_calls = [p \in Policies |-> <<>>]
  /\ PickIdle
  /\ ShareIdle

NextSeeded ==
  \/ GenerateSketchesBegin
  \/ ExpandState
  \/ NextFrontier
  \/ RfactorPass
  \/ \E p \in Policies, size \in CallSizes : SampleInitPopulationBegin(p, size)
  \/ \E p \in Policies : SampleInitPopulationStep(p)
  \/ \E p \in Policies : SampleInitPopulationReturn(p)

SpecSeeded == InitSeeded /\ [][NextSeeded]_vars

(***************************************************************************)
(* States as reference-counted objects.  A State is a reference to a       *)
(* StateNode; the transform_steps, stages and attach_map of a StateNode    *)
(* are references to objects of their own.  CopyOnWrite clones what it is  *)
(* called on when another reference to it is alive.  SpecShare follows the *)
(* references through the post-pass of GenerateSketches (lines 902-917)    *)
(* and the loop of SampleInitPopulation (lines 930-948).                   *)
(***************************************************************************)
\* SampleInitPopulation is followed for out_size = MaxSamples
MaxSamples == 2
\* params[max_innermost_split_factor]
ShareMaxFactor == 2

RfactorStep == [kind |-> "Rfactor", extent |-> Undefined, lengths |-> <<>>]
StateFields == {"transform_steps", "stages", "attach_map"}

StateNode(transform_steps, stages, attach_map) ==
  [transform_steps |-> transform_steps, stages |-> stages, attach_map |-> attach_map,
   concrete |-> FALSE]

\* how many of the references are to the node
RefCount(refs, node) == Cardinality({k \in DOMAIN refs : refs[k] = node})
\* how many of the StateNodes that are alive refer to the object
ObjectRefCount(nodes, refs, obj) ==
  Cardinality({nf \in Range(refs) \X StateFields : nodes[nf[1]][nf[2]] = obj})

\* what a State holds
Content(nodes, objs, node) ==
  [transform_steps |-> objs[nodes[node].transform_steps],
   stages |-> objs[nodes[node].stages],
   attach_map |-> objs[nodes[node].attach_map],
   concrete |-> nodes[node].concrete]
Contents(nodes, objs, refs) == [k \in DOMAIN refs |-> Content(nodes, objs, refs[k])]

\* a local State, with the objects as they are
Held(nodes, objs, node) == [nodes |-> nodes, objects |-> objs, node |-> node]
StepsHeld(held) == held.objects[held.nodes[held.node].transform_steps]

\* variant: the StateNode is written in place, whoever refers to it
CopyOnWriteInPlace(held, others) == held
\* State::CopyOnWrite: `others` are the references alive besides the local one
CopyOnWrite(held, others) ==
  IF RefCount(Append(others, held.node), held.node) = 1 THEN held
  ELSE [held EXCEPT !.nodes = Append(@, held.nodes[held.node]),
                    !.node = Len(held.nodes) + 1]

\* Array::Set, Array::push_back and the updates of the AttachMap: the object
\* is cloned when another StateNode alive refers to it
WriteField(held, others, field, content) ==
  LET obj == held.nodes[held.node][field]
  IN IF ObjectRefCount(held.nodes, Append(others, held.node), obj) = 1
       THEN [held EXCEPT !.objects[obj] = content]
       ELSE [held EXCEPT !.objects = Append(@, content),
                         !.nodes[held.node][field] = Len(held.objects) + 1]

HasRfactorStep(steps) == \E i \in DOMAIN steps : steps[i].kind = "Rfactor"

\* lines 903-915 on out_states[i]
PostPassed(held, others) ==
  LET cloned == CopyOnWrite(held, others)
  IN IF HasRfactorStep(StepsHeld(cloned))
       THEN WriteField(cloned, others, "transform_steps",
                       RfactorSplitUndefined([transform_steps |-> StepsHeld(cloned)]).transform_steps)
       ELSE cloned

\* one turn of the loop of lines 902-917; line 916 puts the State back
PostPassOne ==
  /\ share_pc = "post_pass"
  /\ share_i < Len(sketch_refs)
  /\ \E passed \in {PostPassed(Held(state_nodes, objects, sketch_refs[share_i + 1]),
                                frontier_refs \o sketch_refs)} :
       /\ state_nodes' = passed.nodes
       /\ objects' = passed.objects
       /\ sketch_refs' = [sketch_refs EXCEPT ![share_i + 1] = passed.node]
  /\ share_i' = share_i + 1
  /\ UNCHANGED <<frontier_refs, population_refs, share_pc, observed>>
  /\ UNCHANGED <<searchVars, sampleVars, sketchVars, seededVars, pickVars>>

\* line 920: the buffers of the enumeration go, the caller holds the sketches
SketchesReturned ==
  /\ share_pc = "post_pass"
  /\ share_i >= Len(sketch_refs)
  /\ frontier_refs' = <<>>
  /\ share_pc' = "sampling"
  /\ observed' = [observed EXCEPT !.sketches = Contents(state_nodes, objects, sketch_refs)]
  /\ UNCHANGED <<state_nodes, objects, sketch_refs, population_refs, share_i>>
  /\ UNCHANGED <<searchVars, sampleVars, sketchVars, seededVars, pickVars>>

\* InitFillTileSize::Apply (lines 304-339) on the State held: line 305, the
\* Set of lines 329-333 for the steps it fills, line 336
FillTileSizeShared(held, others, filled_steps) ==
  LET cloned == CopyOnWrite(held, others)
      written == IF StepsToFill(StepsHeld(cloned)) # {}
                   THEN WriteField(cloned, others, "transform_steps", filled_steps)
                   ELSE cloned
  IN [written EXCEPT !.nodes[written.node].concrete = TRUE]

\* what the rules after InitFillTileSize do to the State: nothing, or a
\* change of the compute location (a step, the stages and the attach map)
LaterKinds == {"none", "compute_at"}

LaterRuleShared(held, others, kind) ==
  IF kind = "none" THEN held
  ELSE LET cloned == CopyOnWrite(held, others)
           stepped == WriteField(cloned, others, "transform_steps",
                                 Append(StepsHeld(cloned), OtherStep))
           staged == WriteField(stepped, others, "stages",
                                Append(stepped.objects[stepped.nodes[stepped.node].stages], kind))
       IN WriteField(staged, others, "attach_map",
                     Append(staged.objects[staged.nodes[staged.node].attach_map], kind))

\* one turn of the loop of lines 930-948: the sketch drawn at line 932, the
\* init rules on tmp_s, line 944
SampleOneShared ==
  /\ share_pc = "sampling"
  /\ Len(population_refs) < MaxSamples
  /\ \E k \in DOMAIN sketch_refs, kind \in LaterKinds :
       \E filled_steps \in InitFillTileSize(objects[state_nodes[sketch_refs[k]].transform_steps],
                                            ShareMaxFactor) :
         \E tmp_s \in {LaterRuleShared(
                         FillTileSizeShared(Held(state_nodes, objects, sketch_refs[k]),
                                            sketch_refs \o population_refs, filled_steps),
                         sketch_refs \o population_refs, kind)} :
           /\ state_nodes' = tmp_s.nodes
           /\ objects' = tmp_s.objects
           /\ population_refs' = Append(population_refs, tmp_s.node)
  /\ UNCHANGED <<frontier_refs, sketch_refs, share_pc, share_i, observed>>
  /\ UNCHANGED <<searchVars, sampleVars, sketchVars, seededVars, pickVars>>

\* the steps of a state the enumeration has given: a tiled stage, a stage
\* with rfactor, an inlined stage, both
ShareStepLists ==
  {<<SplitStep(4, <<Undefined>>)>>,
   <<SplitStep(4, <<1>>), RfactorStep>>,
   <<OtherStep>>,
   <<SplitStep(2, <<Undefined, Undefined>>), SplitStep(4, <<1>>), RfactorStep>>}

\* one or two states; two states can share their attach map
ShareHeaps ==
  {[nodes |-> <<StateNode(1, 2, 3)>>, objects |-> <<a, <<>>, <<>>>>] : a \in ShareStepLists}
    \cup {[nodes |-> <<StateNode(1, 2, 3), StateNode(4, 5, 6)>>,
           objects |-> <<ab[1], <<>>, <<>>, ab[2], <<>>, <<>>>>] :
            ab \in ShareStepLists \X ShareStepLists}
    \cup {[nodes |-> <<StateNode(1, 2, 3), StateNode(4, 5, 3)>>,
           objects |-> <<ab[1], <<>>, <<>>, ab[2], <<>>>>] :
            ab \in ShareStepLists \X ShareStepLists}

\* GenerateSketches at line 902: every state of out_states is also in the
\* buffer the last turn of the enumeration read
InitShare ==
  /\ programs = 1..NumStates
  /\ params = [eps_greedy |-> Rat(0, 1), use_measured_ratio |-> Rat(0, 1),
               population |-> 1, random_model |-> TRUE]
  /\ num_measure_per_iter_ = 0
  /\ measured_states_set_ = {}
  /\ measured_states_vector_ = <<>>
  /\ measured_states_throughputs_ = <<>>
  /\ measurer = NewMeasurer
  /\ pc = "idle"
  /\ n_trials = 0
  /\ early_stopping_arg = 0
  /\ early_stopping = 0
  /\ num_random = 0
  /\ ct = 0
  /\ inputs = <<>>
  /\ results = <<>>
  /\ result = NullState
  /\ trace = <<>>
  /\ all_inputs = <<>>
  /\ SampleIdle
  /\ SketchIdle
  /\ SeededIdle
  /\ PickIdle
  /\ \E heap \in ShareHeaps :
       /\ state_nodes = heap.nodes
       /\ objects = heap.objects
       /\ frontier_refs = [k \in DOMAIN heap.nodes |-> k]
       /\ sketch_refs = [k \in DOMAIN heap.nodes |-> k]
       /\ observed = [frontier |-> Contents(heap.nodes, heap.objects,
                                            [k \in DOMAIN heap.nodes |-> k]),
                      sketches |-> <<>>]
  /\ population_refs = <<>>
  /\ share_pc = "post_pass"
  /\ share_i = 0

NextShare ==
  \/ PostPassOne
  \/ SketchesReturned
  \/ SampleOneShared

SpecShare == InitShare /\ [][NextShare]_vars


(***************************************************************************)
(* Reading the history of the running (or just returned) Search call.      *)
(***************************************************************************)
EventsOf(kind) == {i \in DOMAIN trace : trace[i].ev = kind}

\* a measurer that has seen the Measure events of tr, starting as m
RECURSIVE Replay(_, _)
Replay(m, tr) ==
  IF tr = <<>> THEN m
  ELSE Replay(IF Head(tr).ev = "Measure"
                THEN MeasureAll(m, Head(tr).ins, Head(tr).res)
                ELSE m,
              Tail(tr))

\* the measurer after the first i events of the call
MeasurerAt(i) == Replay(NewMeasurer, SubSeq(trace, 1, i))

\* the test of line 789 after the batch that is event i
StopDue(i) == LET m == MeasurerAt(i) IN m.ct - m.best_ct > early_stopping

\* the events of another loop iteration
LoopEvents == {"Update", "SearchOneRound", "Pick", "Measure"}

\* the (state, result) pairs measured in this call
MeasuredPairs ==
  UNION {{<<trace[i].ins[k], trace[i].res[k]>> : k \in DOMAIN trace[i].ins} :
           i \in EventsOf("Measure")}

(***************************************************************************)
(* Properties.                                                             *)
(***************************************************************************)
\* C1: a Search call with n_trials <= 1 makes exactly one call
\* SearchOneRound(0), returns a state of the population it sampled, and makes
\* no Reset, Measure or Update call: the measurer is as it was handed in.
C1_NoMeasurement ==
  (pc = "returned" /\ n_trials <= 1) =>
    /\ trace = <<EvRound(0), EvReturn("ReturnFirst", result)>>
    /\ result \in programs
    /\ measurer = NewMeasurer

C1_Witness ==
  /\ pc = "returned"
  /\ n_trials = 1
  /\ num_measure_per_iter_ > 0
  /\ result \in programs

\* C2: in a Search call with n_trials > 1 every batch handed to the measurer
\* has at most min(num_measure_per_iter, n_trials - ct) inputs, ct being the
\* count before the batch, and ct never exceeds n_trials.
C2_BatchCap ==
  /\ ct <= n_trials
  /\ pc = "measure" => Len(inputs) <= Min(num_measure_per_iter_, n_trials - ct)
  /\ \A i \in EventsOf("Measure") :
       Len(trace[i].ins) <= Min(num_measure_per_iter_, n_trials - MeasurerAt(i - 1).ct)

\* the cap n_trials - ct is what ends a pick: an unmeasured program is left
C2_Witness ==
  /\ pc = "measure"
  /\ ct > 0
  /\ Len(inputs) = n_trials - ct
  /\ Len(inputs) < num_measure_per_iter_
  /\ \E s \in programs : ToStr(s) \notin measured_states_set_

\* C3: no canonical string is handed to the measurer twice, over all the
\* batches of all the Search calls made on the policy.
C3_NoRepeat ==
  \A i, j \in DOMAIN all_inputs :
    i # j => ToStr(all_inputs[i]) # ToStr(all_inputs[j])

\* a second call measures, after an earlier call has; a program with the
\* string measured earlier exists beside the measured one
C3_Witness ==
  /\ pc = "measure"
  /\ EventsOf("Measure") = {}
  /\ Len(all_inputs) > Len(inputs)
  /\ \E s \in programs : s # all_inputs[1] /\ ToStr(s) = ToStr(all_inputs[1])

\* C4 as stated: the state Search returns is a best measured program if a
\* measurement occurred in the call, and otherwise a sampled program (also
\* when n_trials > 1 and the first pick is empty).
C4_ReturnedState ==
  pc = "returned" =>
    IF MeasuredPairs # {}
      THEN \E p \in MeasuredPairs :
             /\ result = p[1]
             /\ \A q \in MeasuredPairs : ~RatGreater(Flops(q[2]), Flops(p[2]))
      ELSE result \in programs

\* C5 as stated: a Search call with n_trials <= 1 does not end in the fatal
\* error of CHECK_GT(best_states.size(), 0), whatever the cost model.
C5_NoFatal == ~(pc = "fatal" /\ n_trials <= 1 /\ trace = <<EvRound(0)>>)

\* C6: when PickStatesWithEpsGreedy returns no state the loop ends in that
\* round: no Update, SearchOneRound, Pick or Measure call follows, and Search
\* returns the best state the measurer holds after the batches measured so far.
C6_EmptyPickEndsLoop ==
  \A i \in EventsOf("Pick") :
    trace[i].ins = <<>> =>
      /\ pc = "returned"
      /\ Len(trace) = i + 1
      /\ trace[i + 1] = EvReturn("ReturnBest", result)
      /\ result = MeasurerAt(i).best_state

\* an empty pick after a batch was measured successfully
C6_Witness ==
  /\ pc = "returned"
  /\ result \in programs
  /\ \E i \in EventsOf("Pick") : trace[i].ins = <<>>

\* C7 as stated: after a batch for which Measure hands back a non-zero status
\* no further loop iteration runs.
C7_CancelEndsLoop ==
  \A i \in EventsOf("Measure") :
    trace[i].n # 0 => \A j \in DOMAIN trace : j > i => trace[j].ev \notin LoopEvents

\* C7, amended: the status Measure hands back is not inspected.  After a batch
\* with a non-zero status the loop stops only for the reasons it stops after
\* any batch: when the early-stopping test holds it stops, and otherwise it
\* goes on to the next test of ct < n_trials and, if that holds, to the next
\* round.
C7_StatusNotInspected ==
  \A i \in EventsOf("Measure") :
    trace[i].n # 0 =>
      IF StopDue(i)
        THEN i < Len(trace) /\ trace[i + 1].ev = "EarlyStop"
        ELSE \/ i = Len(trace) /\ pc = "loop_head"
             \/ i < Len(trace) /\ trace[i + 1].ev = "Update"
             \/ /\ i < Len(trace)
                /\ trace[i + 1].ev = "ReturnBest"
                /\ ~(MeasurerAt(i).ct < n_trials)

\* a round runs after a batch with a non-zero status
C7_Witness ==
  \E i \in EventsOf("Measure") :
    /\ trace[i].n # 0
    /\ i + 2 <= Len(trace)
    /\ trace[i + 1].ev = "Update"
    /\ trace[i + 2].ev = "SearchOneRound"

\* C8: the early-stopping test runs after every batch (the loop stops right
\* after a batch exactly when ct - best_ct > early_stopping holds then), and
\* with a negative early_stopping argument it never stops the loop.
C8_EarlyStopping ==
  /\ \A i \in EventsOf("Measure") :
       IF i < Len(trace)
         THEN (trace[i + 1].ev = "EarlyStop") <=> StopDue(i)
         ELSE ~StopDue(i)
  /\ \A i \in EventsOf("EarlyStop") :
       /\ i > 1 /\ trace[i - 1].ev = "Measure"
       /\ i < Len(trace) /\ trace[i + 1].ev = "ReturnBest"
  /\ early_stopping_arg < 0 => EventsOf("EarlyStop") = {}

\* a call with a negative early_stopping argument returns after two batches,
\* the best result being the first of the call
C8_Witness ==
  /\ early_stopping_arg < 0
  /\ pc = "returned"
  /\ Cardinality(EventsOf("Measure")) = 2
  /\ measurer.best_ct = 0
  /\ measurer.best_state \in programs

\* C9: no Update call precedes the first Measure call; every SearchOneRound
\* call after a batch is preceded, immediately, by exactly one Update call,
\* made with the inputs and results of that batch; Update is called nowhere
\* else.
C9_UpdateOrder ==
  /\ \A i \in EventsOf("Update") :
       /\ i > 1
       /\ trace[i - 1].ev = "Measure"
       /\ trace[i].ins = trace[i - 1].ins
       /\ trace[i].res = trace[i - 1].res
       /\ i < Len(trace) /\ trace[i + 1].ev = "SearchOneRound"
  /\ \A i \in EventsOf("SearchOneRound") :
       (\E j \in EventsOf("Measure") : j < i) =>
         /\ trace[i - 1].ev = "Update"
         /\ trace[i - 2].ev = "Measure"

\* a second round, with its Update, in a call that measured two batches
C9_Witness ==
  /\ Cardinality(EventsOf("Update")) >= 1
  /\ Cardinality(EventsOf("Measure")) = 2

\* C10 as stated: every state SampleInitPopulation returns has no Split step
\* with an undefined length, and each Split step that had an undefined length
\* in the sketch has lengths whose product is the extent of the step.
C10_ProductIsExtent ==
  sample_pc = "returned" =>
    \A j \in DOMAIN out_states :
      /\ \A i \in DOMAIN out_states[j] : Undefined \notin Range(out_states[j][i].lengths)
      /\ \E k \in DOMAIN sketches :
           \A i \in DOMAIN sketches[k] :
             (sketches[k][i].kind = "Split" /\ Undefined \in Range(sketches[k][i].lengths)) =>
               Product(out_states[j][i].lengths) = sketches[k][i].extent

\* C10, amended: every state SampleInitPopulation returns has no Split step
\* with an undefined length.  The state keeps the steps of one of the sketches
\* in place; a Split step of the sketch that had an undefined length has all
\* its lengths replaced (the defined ones too), keeps its extent and the
\* number of its lengths, the product of the lengths divides the extent (the
\* quotient is the extent of the outermost iterator) and the innermost length
\* is at most max_innermost_split_factor; every other step of the sketch is
\* as it was.
C10_FilledTileSizes ==
  sample_pc = "returned" =>
    \A j \in DOMAIN out_states :
      /\ \A i \in DOMAIN out_states[j] : Undefined \notin Range(out_states[j][i].lengths)
      /\ \E k \in DOMAIN sketches :
           /\ Len(sketches[k]) <= Len(out_states[j])
           /\ \A i \in DOMAIN sketches[k] :
                LET before == sketches[k][i]
                    after == out_states[j][i]
                IN IF before.kind = "Split" /\ Undefined \in Range(before.lengths)
                     THEN /\ after.kind = "Split"
                          /\ after.extent = before.extent
                          /\ Len(after.lengths) = Len(before.lengths)
                          /\ before.extent % Product(after.lengths) = 0
                          /\ after.lengths[Len(after.lengths)] <= max_innermost_split_factor
                     ELSE after = before

\* a returned state with a filled Split step whose lengths do not multiply to
\* the extent, in a sketch that had one length defined and one undefined
C10_Witness ==
  /\ sample_pc = "returned"
  /\ \E j \in DOMAIN out_states, k \in DOMAIN sketches :
     \E i \in DOMAIN sketches[k] :
       /\ Len(out_states[j]) >= i
       /\ sketches[k][i].kind = "Split"
       /\ sketches[k][i].lengths = <<2, Undefined>>
       /\ out_states[j][i].kind = "Split"
       /\ out_states[j][i].lengths = <<1, 2>>
       /\ out_states[j][i].extent = 4

\* C18 as stated: with eps_greedy = 1.0 every input of every batch is taken
\* from the random_states list, never from the best_states list.
C18_AllFromRandomStates ==
  params.eps_greedy = Rat(1, 1) =>
    \A i \in EventsOf("Pick") : \A k \in DOMAIN trace[i].res : trace[i].res[k] = "random"

\* C18, amended: with eps_greedy = 1.0 every input of every batch is taken
\* from the random_states list when the cost model is not a RandomModel; with
\* a RandomModel random_states is empty and every input is taken from
\* best_states, itself a random sample of the init population.
C18_PickSourceAtEpsOne ==
  params.eps_greedy = Rat(1, 1) =>
    \A i \in EventsOf("Pick") : \A k \in DOMAIN trace[i].res :
      trace[i].res[k] = (IF IsCostModelReasonable THEN "random" ELSE "best")

\* a batch of two random picks is about to be measured
C18_Witness ==
  /\ params.eps_greedy = Rat(1, 1)
  /\ IsCostModelReasonable
  /\ pc = "measure"
  /\ Len(inputs) = 2
  /\ trace[Len(trace)].res = <<"random", "random">>

\* C19: with a RandomModel a round calls SampleInitPopulation for `population`
\* candidates, pushes no measured state to the population, does not call
\* EvolutionarySearch, returns 3 x num_measure_per_iter random samples of the
\* population as best_states and leaves random_states empty.
C19_RandomModelRound ==
  (params.random_model /\ pc = "loop_head") =>
    \A out \in SearchOneRound(num_random, num_measure_per_iter_) :
      /\ out.sample_size = params.population
      /\ out.measured = {}
      /\ out.init_population \subseteq programs
      /\ ~out.evolutionary
      /\ out.best_size = 3 * num_measure_per_iter_
      /\ out.random_size = 0

\* a round is due with a RandomModel where an informative model would push a
\* measured state and draw random states
C19_Witness ==
  /\ params.random_model
  /\ pc = "loop_head"
  /\ ct < n_trials
  /\ num_random > 0
  /\ NumUseMeasured > 0

RuleNames(i) == [k \in DOMAIN derivations[i] |-> derivations[i][k].rule]

\* the kinds of the steps of sketch i
StepKinds(i) ==
  [k \in DOMAIN sketch_out_states[i].transform_steps |->
     sketch_out_states[i].transform_steps[k].kind]

\* the id of the stage of the operation `name` in the state, -1 if none
StageIdOf(state, name) ==
  IF \E s \in StageIds(state) : StageAt(state, s).op.name = name
    THEN CHOOSE s \in StageIds(state) : StageAt(state, s).op.name = name
    ELSE -1

\* the two halves of the attach map are each other's inverse
AttachMapConsistent(state) ==
  /\ \A e \in state.stage_to_attach_iter : <<e[2], e[3], e[1]>> \in state.iter_to_attached_stages
  /\ \A e \in state.iter_to_attached_stages : <<e[3], e[1], e[2]>> \in state.stage_to_attach_iter
  /\ \A e, f \in state.stage_to_attach_iter : e[1] = f[1] => e = f

\* every operation of the DAG is an elementwise compute operation or a placeholder
IsElementwiseDag(task) ==
  \A s \in StageIds(task.init_state) :
    LET stage == StageAt(task.init_state, s)
    IN stage.op_type = "kCompute" =>
         /\ stage.op.strict_inlinable
         /\ ~HasReduceIter(stage)
         /\ ~stage.op.needs_mlt
         /\ ~stage.op.needs_rfactor

\* C11 as stated: every state GenerateSketches returns is what replaying its
\* transform steps from the initial state of the DAG gives (stages and attach
\* map), and the two halves of its attach map are each other's inverse.
C11_ReplayGivesStages ==
  sketch_pc = "returned" =>
    \A i \in DOMAIN sketch_out_states :
      /\ ReplaySteps(search_task.init_state, sketch_out_states[i].transform_steps)
           = sketch_out_states[i]
      /\ AttachMapConsistent(sketch_out_states[i])

\* C13: for a DAG of a single placeholder GenerateSketches returns exactly
\* one sketch; it has no transform step and only SkipStage was applied.
C13_PlaceholderSketch ==
  (/\ sketch_pc = "returned"
   /\ NumStages(search_task.init_state) = 1
   /\ StageAt(search_task.init_state, 0).op_type = "kPlaceholder") =>
    /\ Len(sketch_out_states) = 1
    /\ sketch_out_states[1] = search_task.init_state
    /\ sketch_out_states[1].transform_steps = <<>>
    /\ RuleNames(1) = <<"rule_skip_stage">>

\* the sketch of a placeholder the analyzer calls strict inlinable
C13_Witness ==
  /\ sketch_pc = "returned"
  /\ search_task = TaskPlaceholder(TRUE)
  /\ Len(sketch_out_states) = 1

IsPlainMatmul ==
  /\ search_task = TaskMatmul(FALSE, {})
  /\ cpu_structure = DefaultStructure

\* C15 as stated: for the matmul DAG with structure "SSRSRS" GenerateSketches
\* returns exactly two sketches, one with cache_write and multi-level tiling
\* and one with multi-level tiling alone.
C15_TwoSketches ==
  (sketch_pc = "returned" /\ IsPlainMatmul) =>
    /\ Len(sketch_out_states) = 2
    /\ \E i \in DOMAIN sketch_out_states :
         /\ "rule_add_cache_write_stage" \in Range(RuleNames(i))
         /\ "Split" \in Range(StepKinds(i))
    /\ \E i \in DOMAIN sketch_out_states :
         /\ "rule_multi_level_tiling" \in Range(RuleNames(i))
         /\ "CacheWrite" \notin Range(StepKinds(i))

\* C15, amended: for the matmul DAG with structure "SSRSRS" GenerateSketches
\* returns exactly four sketches: one with multi-level tiling alone; one
\* without any step (SkipStage); and two with cache_write, in which the cache
\* stage is tiled and computed at the tiled output stage, at level 1 and at
\* level 2 (MultiLevelTilingWithFusion).
C15_FourSketches ==
  (sketch_pc = "returned" /\ IsPlainMatmul) =>
    /\ Len(sketch_out_states) = 4
    /\ RuleNames(1) = <<"rule_multi_level_tiling", "rule_skip_stage", "rule_skip_stage">>
    /\ StepKinds(1) = <<"Split", "Split", "Split", "Reorder">>
    /\ RuleNames(2) = <<"rule_skip_stage", "rule_skip_stage", "rule_skip_stage">>
    /\ sketch_out_states[2] = search_task.init_state
    /\ \A level \in {1, 2} :
         LET i == 2 + level
         IN /\ RuleNames(i) = <<"rule_add_cache_write_stage",
                                "rule_multi_level_tiling_with_fusion",
                                "rule_skip_stage", "rule_skip_stage">>
            /\ derivations[i][2].cond = "kApplyAndSkipRest"
            /\ derivations[i][2].variant = level
            /\ StepKinds(i) = <<"CacheWrite", "Split", "Split", "Split", "Reorder",
                                "Split", "Split", "Reorder", "ComputeAt">>
            /\ sketch_out_states[i].stage_to_attach_iter = {<<2, 3, 2 * level - 1>>}

C15_Witness ==
  /\ sketch_pc = "returned"
  /\ IsPlainMatmul
  /\ Len(sketch_out_states) = 4

\* the sketches MultiLevelTilingWithFusion made when applied to the stage of
\* the operation `name`
FusionSketches(name) ==
  {i \in DOMAIN sketch_out_states :
     \E k \in DOMAIN derivations[i] :
       /\ derivations[i][k].rule = "rule_multi_level_tiling_with_fusion"
       /\ derivations[i][k].stage_id = StageIdOf(search_task.init_state, name)}

FusionEntry(i) ==
  derivations[i][CHOOSE k \in DOMAIN derivations[i] :
                   derivations[i][k].rule = "rule_multi_level_tiling_with_fusion"]

IsConvBias ==
  /\ search_task = TaskConvBias
  /\ cpu_structure = DefaultStructure

\* C17 as stated: on conv2d followed by bias-add MultiLevelTilingWithFusion
\* applies to conv with kApplyAndSkipRest and makes two variants, at levels 1
\* and 2, in each of which bias-add is computed at an iterator of the tiled
\* conv stage.
C17_FusionSkipsRest ==
  (sketch_pc = "returned" /\ IsConvBias) =>
    /\ Cardinality(FusionSketches("conv")) = 2
    /\ \A i \in FusionSketches("conv") :
         LET state == sketch_out_states[i]
         IN /\ FusionEntry(i).cond = "kApplyAndSkipRest"
            /\ FusionEntry(i).variants = 2
            /\ \E e \in state.stage_to_attach_iter :
                 /\ e[1] = StageIdOf(state, "bias_add")
                 /\ e[2] = StageIdOf(state, "conv")

\* C17, amended: on conv2d followed by bias-add MultiLevelTilingWithFusion
\* applies to conv with kApply (conv has no cache-write stage: AddCacheWrite
\* passes on a stage with an elementwise-matched consumer), so
\* MultiLevelTiling and SkipStage apply to conv as well.  It makes two
\* variants, at levels 1 and 2; in each conv is tiled, bias-add is tiled into
\* level + 1 parts, and conv is computed at the last iterator of level `level`
\* of the tiled bias-add stage, which stays at root.
C17_FusionApplies ==
  (sketch_pc = "returned" /\ IsConvBias) =>
    /\ Len(sketch_out_states) = 4
    /\ FusionSketches("conv") = {1, 2}
    /\ \A i \in FusionSketches("conv") :
         LET state == sketch_out_states[i]
             conv == StageIdOf(state, "conv")
             bias_add == StageIdOf(state, "bias_add")
         IN /\ FusionEntry(i).cond = "kApply"
            /\ FusionEntry(i).variants = 2
            /\ FusionEntry(i).variant = i
            /\ "CacheWrite" \notin Range(StepKinds(i))
            /\ IsTiled(StageAt(state, conv))
            /\ Len(StageAt(state, bias_add).iters) = 2 * (i + 1)
            /\ StageAt(state, conv).compute_at = "kIter"
            /\ StageAt(state, bias_add).compute_at = "kRoot"
            /\ state.stage_to_attach_iter = {<<conv, bias_add, 2 * i - 1>>}
    /\ RuleNames(3)[3] = "rule_multi_level_tiling"
    /\ RuleNames(4)[3] = "rule_skip_stage"

C17_Witness ==
  /\ sketch_pc = "returned"
  /\ IsConvBias
  /\ Cardinality(FusionSketches("conv")) = 2

(***************************************************************************)
(* Reading the init population the policies have sampled.                  *)
(***************************************************************************)
\* the states policy p has sampled in its running or last call
Sampled(p) == {init_out_states[p][i] : i \in DOMAIN init_out_states[p]}

IsChain1024 == search_task = TaskChain(1024)

\* what C16 says of add and of the outermost loop of relu
ChainInlinedAndParallel(state) ==
  LET add == StageIdOf(state, "add")
      relu == StageIdOf(state, "relu")
  IN /\ StageAt(state, add).compute_at = "kInlined"
     /\ StageAt(state, relu).compute_at = "kRoot"
     /\ IterAt(StageAt(state, relu), 0).annotation = "parallel"

C16_ChainVectorized ==
  IsChain1024 =>
    /\ sketch_pc = "returned" => Len(sketch_out_states) = 1
    /\ \A p \in Policies : \A state \in Sampled(p) :
         LET relu == StageAt(state, StageIdOf(state, "relu"))
         IN /\ ChainInlinedAndParallel(state)
            /\ relu.iters[Len(relu.iters)].annotation = "vectorize"
            /\ relu.iters[Len(relu.iters)].extent = 16

\* C16, amended: the chain has a single sketch, and in every state sampled
\* from it add is inlined, relu is at root and the only loop of relu, of
\* extent 1024, is parallel; no loop is split and none is vectorized.
C16_ChainParallelOnly ==
  IsChain1024 =>
    /\ sketch_pc = "returned" => Len(sketch_out_states) = 1
    /\ \A p \in Policies : \A state \in Sampled(p) :
         LET relu == StageAt(state, StageIdOf(state, "relu"))
         IN /\ ChainInlinedAndParallel(state)
            /\ Len(relu.iters) = 1
            /\ relu.iters[1].extent = 1024
            /\ \A s \in StageIds(state) : ~HasAnnotatedIter(StageAt(state, s), "vectorize")
            /\ [k \in DOMAIN state.transform_steps |-> state.transform_steps[k].kind]
                 = <<"ComputeInline", "Annotation">>

\* a policy has returned two samples of the chain
C16_Witness ==
  /\ IsChain1024
  /\ init_pc[1] = "returned"
  /\ Len(init_out_states[1]) = 2
  /\ \A state \in Sampled(1) : ChainInlinedAndParallel(state)

(***************************************************************************)
(* Reading a PickStatesWithEpsGreedy call.                                 *)
(***************************************************************************)
PickCapNow == PickCap(num_measure_per_iter_, pick_remaining_n_trials)
BestExhausted == offset_best = Len(best_states)
RandomExhausted == offset_random = Len(random_states)

\* C21 as stated: PickStatesWithEpsGreedy stops picking when either of its
\* lists is exhausted or when the cap min(num_measure_per_iter,
\* remaining_n_trials) is reached: an iteration takes a candidate only while
\* both lists have entries left and the cap is not reached.
C21_StopsWhenEitherExhausted ==
  \A i \in DOMAIN pick_log :
    /\ pick_log[i].has_best
    /\ pick_log[i].has_random
    /\ pick_log[i].n_inputs < PickCapNow

\* C21, amended: PickStatesWithEpsGreedy stops picking when both lists are
\* exhausted or when the cap is reached; while the cap is not reached and
\* one list has entries left, it takes its next candidate.
C21_StopsWhenBothExhausted ==
  /\ \A i \in DOMAIN pick_log :
       /\ pick_log[i].has_best \/ pick_log[i].has_random
       /\ pick_log[i].n_inputs < PickCapNow
  /\ pick_pc = "returned" =>
       \/ Len(pick_inputs) = PickCapNow
       \/ BestExhausted /\ RandomExhausted

\* a call has returned fewer inputs than the cap, after taking a candidate
\* from random_states when best_states had none left
C21_Witness ==
  /\ pick_pc = "returned"
  /\ Len(pick_inputs) < PickCapNow
  /\ BestExhausted /\ RandomExhausted
  /\ Len(best_states) > 0
  /\ \E i \in DOMAIN pick_log :
       /\ ~pick_log[i].has_best
       /\ pick_log[i].from = "random"
       /\ pick_log[i].accepted

\* the iterations before iteration i that took their candidate from `list`
TakenBefore(list, i) == {j \in 1..(i - 1) : pick_log[j].from = list}
AcceptedBefore(i) == {j \in 1..(i - 1) : pick_log[j].accepted}

\* C22: while fewer than num_good inputs have been accepted the candidate is
\* taken from best_states when any remain, afterwards from random_states
\* when any remain; each list is read in list order; a candidate that is
\* rejected as already measured moves the offset of its list only, and the
\* inputs are the accepted candidates in the order they were taken.
C22_BestFirstThenRandom ==
  /\ \A i \in DOMAIN pick_log :
       LET e == pick_log[i]
       IN /\ (e.n_inputs < NumGood /\ e.has_best) => e.from = "best"
          /\ (~(e.n_inputs < NumGood) /\ e.has_random) => e.from = "random"
          /\ e.index = Cardinality(TakenBefore(e.from, i))
          /\ e.state = (IF e.from = "best" THEN best_states ELSE random_states)[e.index + 1]
          /\ e.n_inputs = Cardinality(AcceptedBefore(i))
          /\ e.accepted => pick_inputs[e.n_inputs + 1] = e.state
          /\ ~e.accepted => ToStr(e.state) \in measured_states_set_
  /\ Len(pick_inputs) = Cardinality(AcceptedBefore(Len(pick_log) + 1))
  /\ offset_best = Cardinality(TakenBefore("best", Len(pick_log) + 1))
  /\ offset_random = Cardinality(TakenBefore("random", Len(pick_log) + 1))

\* a call with num_good = 1 has skipped the first entry of best_states, taken
\* the second and then turned to random_states
C22_Witness ==
  /\ pick_pc = "returned"
  /\ NumGood = 1
  /\ Len(pick_log) = 3
  /\ pick_log[1].from = "best" /\ ~pick_log[1].accepted
  /\ pick_log[2].from = "best" /\ pick_log[2].accepted /\ pick_log[2].n_inputs = 0
  /\ pick_log[3].from = "random" /\ pick_log[3].n_inputs = 1

\* SearchOneRound is about to be called: by the loop of Search (line 767) or
\* by a Search call that starts now (lines 743 and 767)
AtSearchOneRoundEntry == pc = "idle" \/ (pc = "loop_head" /\ ct < n_trials)

\* C23: at every entry to SearchOneRound, after any sequence of Search calls
\* on the policy, measured_states_throughputs_ is as long as
\* measured_states_vector_, so the first num_use_measured Argsort indices
\* exist and are positions of the vector.
C23_ThroughputsMatchVector ==
  AtSearchOneRoundEntry =>
    /\ Len(measured_states_throughputs_) = Len(measured_states_vector_)
    /\ NumUseMeasured <= Len(measured_states_throughputs_)

(***************************************************************************)
(* Reading one expansion of GenerateSketches.                              *)
(***************************************************************************)
\* the for loop of line 868 is at a state whose stage_id is not negative
Expanding == sketch_pc = "enumerate" /\ cur <= Len(pnow) /\ pnow[cur].stage_id >= 0
\* the rule that made a pair of a frontier
MadeBy(entry) == entry.derivation[Len(entry.derivation)]

\* C24: when a rule reports kApplyAndSkipRest for a (state, stage_id) pair no
\* successor of the pair is made by a rule later in sketch_rules; when
\* ShouldAlwaysBeInlined holds the pair has exactly one successor, the
\* compute_inline state at stage_id - 1.
C24_SkipRestEndsRules ==
  [][(Expanding /\ cur' = cur + 1) =>
       LET pair == pnow[cur]
           successors == SubSeq(pnext', Len(pnext) + 1, Len(pnext'))
       IN /\ \A k \in DOMAIN sketch_rules :
               MeetCondition(sketch_rules[k], pair.state, pair.stage_id) = "kApplyAndSkipRest" =>
                 \A j \in DOMAIN successors :
                   IndexOf(sketch_rules, MadeBy(successors[j]).rule) <= k
          /\ ShouldAlwaysBeInlined(pair.state, pair.stage_id) =>
               /\ Len(successors) = 1
               /\ successors[1].state = compute_inline(pair.state, pair.stage_id)
               /\ successors[1].stage_id = pair.stage_id - 1]_vars

\* a pair made by RuleAlwaysInline is in the next frontier
C24_Witness ==
  /\ sketch_pc = "enumerate"
  /\ \E k \in DOMAIN pnext :
       /\ MadeBy(pnext[k]).rule = "rule_always_inline"
       /\ MadeBy(pnext[k]).cond = "kApplyAndSkipRest"
       /\ MadeBy(pnext[k]).variants = 1

\* C25: every compute_inline step the sketch rules issue is on a stage whose
\* operation the access analyzer finds strict-inlinable.
C25_InlinedAreStrictInlinable ==
  \A k \in DOMAIN pnext :
    MadeBy(pnext[k]).rule = "rule_always_inline" =>
      StageAt(pnext[k].state, MadeBy(pnext[k]).stage_id).op.strict_inlinable

\* the successors an expansion step adds to the next frontier
Successors == SubSeq(pnext', Len(pnext) + 1, Len(pnext'))
\* ... those made by `rule`
SuccessorsBy(rule) == SelectSeq(Successors, LAMBDA e : MadeBy(e).rule = rule)
\* the levels of follow_tiling_levels whose structure character is S
FusionLevels == {level \in {1, 2} : cpu_structure[level] \in {"S", "s"}}

\* C26: RuleMultiLevelTilingWithFusion reports kApplyAndSkipRest exactly when
\* the stage needs multi-level tiling, has a single elementwise-matched
\* consumer and has a cache-write stage; when the first two hold without a
\* cache-write stage it reports kApply and RuleMultiLevelTiling and
\* RuleSkipStage expand the same pair.  It makes one variant per level of
\* {1, 2} whose structure character is S, each continuing at stage_id - 1.
C26_FusionCondition ==
  [][(Expanding /\ cur' = cur + 1) =>
       LET pair == pnow[cur]
           fused == SuccessorsBy("rule_multi_level_tiling_with_fusion")
           applies == /\ NeedsMultilevelTiling(pair.state, pair.stage_id)
                      /\ HasSingleElementwiseMatchedConsumer(pair.state, pair.stage_id)
           cached == HasCacheWriteStage(pair.state, pair.stage_id)
       IN /\ ~applies => fused = <<>>
          /\ applies =>
               /\ Len(fused) = Cardinality(FusionLevels)
               /\ \A k \in DOMAIN fused :
                    /\ fused[k].stage_id = pair.stage_id - 1
                    /\ MadeBy(fused[k]).cond = (IF cached THEN "kApplyAndSkipRest" ELSE "kApply")
          /\ (applies /\ cached) =>
               /\ SuccessorsBy("rule_multi_level_tiling") = <<>>
               /\ SuccessorsBy("rule_skip_stage") = <<>>
          /\ (applies /\ ~cached) =>
               /\ Len(SuccessorsBy("rule_multi_level_tiling")) = 1
               /\ Len(SuccessorsBy("rule_skip_stage")) = 1]_vars

\* the next frontier holds the one variant the rule makes, with
\* kApplyAndSkipRest, for a structure whose second character is not S, and
\* nothing else from the same pair
C26_Witness ==
  /\ sketch_pc = "enumerate"
  /\ Cardinality(FusionLevels) = 1
  /\ Len(pnext) = 1
  /\ MadeBy(pnext[1]).rule = "rule_multi_level_tiling_with_fusion"
  /\ MadeBy(pnext[1]).cond = "kApplyAndSkipRest"
  /\ MadeBy(pnext[1]).variants = 1

\* the kinds of the steps of a state
KindsOf(state) == [k \in DOMAIN state.transform_steps |-> state.transform_steps[k].kind]
\* the steps of `state` after those of `base`
StepsAfter(base, state) ==
  SubSeq(state.transform_steps, Len(base.transform_steps) + 1, Len(state.transform_steps))
\* the stage rfactor has added for the stage `stage_id` of `base`
RfactorStageId(base, state, stage_id) ==
  StageIdOf(state, StageAt(base, stage_id).op.name \o ".rf")

\* C27: when RuleAddRfactor applies to a pair it makes exactly two
\* successors, one for each part of the split (by 1) of the fused reduction
\* iterator; only the second reorders the factored iterator of the rfactor
\* stage to innermost; both continue at rstage_id - 1, and the rule reports
\* kApply, so RuleSkipStage expands the pair as well.
C27_RfactorTwoVariants ==
  [][(/\ Expanding
      /\ cur' = cur + 1
      /\ NeedsRfactor(pnow[cur].state, pnow[cur].stage_id)
      /\ ~HasCacheWriteStage(pnow[cur].state, pnow[cur].stage_id)) =>
       LET pair == pnow[cur]
           made == SuccessorsBy("rule_add_rfactor")
           first == StepsAfter(pair.state, made[1].state)
           second == StepsAfter(pair.state, made[2].state)
           rf1 == StageAt(made[1].state, RfactorStageId(pair.state, made[1].state, pair.stage_id))
           rf2 == StageAt(made[2].state, RfactorStageId(pair.state, made[2].state, pair.stage_id))
       IN /\ Len(made) = 2
          /\ \A k \in 1..2 :
               /\ MadeBy(made[k]).cond = "kApply"
               /\ made[k].stage_id =
                    RfactorStageId(pair.state, made[k].state, pair.stage_id) - 1
               /\ made[k].stage_id = pair.stage_id - 1
          /\ first[Len(first)].kind = "Rfactor"
          /\ first[Len(first) - 1].kind = "Split"
          /\ first[Len(first) - 1].lengths = <<1>>
          /\ second = SubSeq(first, 1, Len(first) - 1)
                        \o <<[first[Len(first)] EXCEPT !.iter_id = @ + 1],
                             second[Len(second)]>>
          /\ second[Len(second)].kind = "Reorder"
          /\ second[Len(second)].stage_id = made[2].stage_id + 1
          /\ rf1.iters[Len(rf1.iters)].iter_kind = "kReduction"
          /\ rf2.iters[Len(rf2.iters)].iter_kind = "kSpatial"
          /\ Len(rf2.iters) = Len(rf1.iters)
          /\ Len(SuccessorsBy("rule_skip_stage")) = 1]_vars

\* the two successors RuleAddRfactor has made of a pair are in the next
\* frontier, followed by the one of RuleSkipStage
C27_Witness ==
  /\ sketch_pc = "enumerate"
  /\ \E k \in DOMAIN pnext :
       /\ k + 2 <= Len(pnext)
       /\ MadeBy(pnext[k]).rule = "rule_add_rfactor" /\ MadeBy(pnext[k]).variant = 1
       /\ MadeBy(pnext[k + 1]).rule = "rule_add_rfactor" /\ MadeBy(pnext[k + 1]).variant = 2
       /\ MadeBy(pnext[k + 2]).rule = "rule_skip_stage"
       /\ "Reorder" \notin Range(KindsOf(pnext[k].state))
       /\ "Reorder" \in Range(KindsOf(pnext[k + 1].state))

\* C28: in every sketch GenerateSketches returns, a Rfactor step that is not
\* the first step comes right after a Split step whose single length is
\* unset and whose stage_id, iter_id, extent and inner_to_outer are those it
\* had before the post-pass; the post-pass changes no other step, nor the
\* number or the order of the steps.
C28_RfactorPostPass ==
  [][(sketch_pc = "rfactor_pass" /\ sketch_pc' = "returned") =>
       /\ Len(sketch_out_states') = Len(sketch_out_states)
       /\ \A i \in DOMAIN sketch_out_states :
            LET old == sketch_out_states[i].transform_steps
                new == sketch_out_states'[i].transform_steps
            IN /\ Len(new) = Len(old)
               /\ \A j \in DOMAIN new :
                    IF j < Len(new) /\ new[j + 1].kind = "Rfactor"
                      THEN /\ old[j].kind = "Split"
                           /\ Len(old[j].lengths) = 1
                           /\ new[j] = [old[j] EXCEPT !.lengths = <<Undefined>>]
                           /\ new[j].extent # Undefined
                      ELSE new[j] = old[j]]_vars

\* a returned sketch has a Rfactor step after a Split step of unset length
C28_Witness ==
  /\ sketch_pc = "returned"
  /\ \E i \in DOMAIN sketch_out_states :
       LET steps == sketch_out_states[i].transform_steps
       IN \E j \in DOMAIN steps :
            /\ j > 1
            /\ steps[j].kind = "Rfactor"
            /\ steps[j - 1].kind = "Split"
            /\ steps[j - 1].lengths = <<Undefined>>
            /\ steps[j - 1].inner_to_outer

ExpandedWithoutVariant ==
  /\ sketch_pc = "enumerate"
  /\ cur > 1
  /\ pnow[cur - 1].stage_id >= 0
  /\ RuleMultiLevelTilingWithFusionMeetCondition(pnow[cur - 1].state, pnow[cur - 1].stage_id)
       = "kApplyAndSkipRest"
  /\ FusionLevels = {}

\* C30 as stated: every (state, stage_id) pair with stage_id >= 0 that
\* GenerateSketches expands has at least one successor, whatever the
\* structure string is, and so the set GenerateSketches returns is not empty.
C30_EveryPairHasSuccessor ==
  /\ [][(Expanding /\ cur' = cur + 1) => Len(Successors) >= 1]_vars
  /\ [](sketch_pc = "returned" => sketch_out_states # <<>>)

\* C30, amended: a (state, stage_id) pair with stage_id >= 0 that
\* GenerateSketches expands has no successor exactly when
\* RuleMultiLevelTilingWithFusion reports kApplyAndSkipRest for it and neither
\* of the first two characters of the structure is an S; the set
\* GenerateSketches returns is not empty all the same, so the modulus of
\* line 932 is not zero.
C30_PairWithoutSuccessorOnlyWithoutFusionLevel ==
  /\ [][(Expanding /\ cur' = cur + 1) =>
          (Len(Successors) = 0 <=>
             /\ RuleMultiLevelTilingWithFusionMeetCondition(pnow[cur].state, pnow[cur].stage_id)
                  = "kApplyAndSkipRest"
             /\ FusionLevels = {})]_vars
  /\ [](sketch_pc = "returned" => Len(sketch_out_states) >= 1)
C30_Witness ==
  /\ ExpandedWithoutVariant
  /\ pnext = <<>>

\* C31: sampling never changes a sketch: whatever SampleInitPopulation has
\* done, every state of the sketches array holds the transform steps (with
\* their unknown Split lengths), the stages and the attach map it held when
\* GenerateSketches returned; and the post-pass of GenerateSketches leaves
\* what the states of the enumeration buffers hold as it was.
C31_SketchesNeverMutated ==
  /\ share_pc = "sampling" =>
       Contents(state_nodes, objects, sketch_refs) = observed.sketches
  /\ share_pc = "post_pass" =>
       Contents(state_nodes, objects, frontier_refs) = observed.frontier
\* two samples of a sketch whose rfactor split the post-pass has rewritten,
\* one with another tile size or more steps than the sketch
C31_Witness ==
  /\ share_pc = "sampling"
  /\ Len(population_refs) = MaxSamples
  /\ \E k \in DOMAIN observed.sketches : observed.sketches[k] # observed.frontier[k]
  /\ \E k \in DOMAIN population_refs :
       Content(state_nodes, objects, population_refs[k]).transform_steps
         \notin {observed.sketches[j].transform_steps : j \in DOMAIN observed.sketches}

\* the sample a policy takes next, after InitFillTileSize and
\* InitChangeComputeLocation (lines 932-941 up to the second rule)
AfterChangeComputeLocation(p) ==
  LET r == Rand(rand_gen[p], Len(sketch_out_states))
  IN ThenRule(InitFillTileSizeApply(sketch_out_states[r.value + 1], r.rand_gen,
                                    init_params.max_innermost_split_factor),
              LAMBDA s, gen : InitChangeComputeLocationApply(
                                search_task, s, gen,
                                init_params.disable_change_compute_location))

\* the state is what InferBound gives for it: every iterator has the extent
\* that follows from the steps
BoundInferred(state) == state = InferBound(search_task, state)

\* C32: whatever the parameters are (disable_change_compute_location set or
\* not), the state InitChangeComputeLocation returns has been through
\* InferBound, so InitParallel and InitVectorization read iterator extents
\* that follow from the tile sizes InitFillTileSize has chosen.
C32_BoundInferredAfterChangeComputeLocation ==
  (sketch_pc = "returned" /\ sketch_out_states # <<>>) =>
    \A p \in Policies :
      AfterChangeComputeLocation(p).kind = "kValid" =>
        BoundInferred(AfterChangeComputeLocation(p).state)

\* lines 353-365: the stages InitChangeComputeLocation draws a location for
EligibleStage(state, stage_id) ==
  /\ StageAt(state, stage_id).op_type # "kPlaceholder"
  /\ StageAt(state, stage_id).compute_at # "kInlined"
  /\ ~IsTiled(StageAt(state, stage_id))
  /\ ~NeedsMultilevelTiling(state, stage_id)
  /\ GetSingleConsumerId(state, stage_id) >= 0
EligibleStages(state) ==
  {stage_id \in 0..(NumStages(state) - 1) : EligibleStage(state, stage_id)}

\* the sample a policy takes next: the state InitFillTileSize leaves, the
\* stage InitChangeComputeLocation comes to first, its candidates, the choice
\* drawn at line 451 and the state the rule returns
FirstLocationOf(filled, eligible, stage_id) ==
  LET candidates == IF eligible = {} THEN <<>>
                    ELSE ComputeLocationCandidates(
                           filled.state, GetSingleConsumerId(filled.state, stage_id))
  IN [drawn |-> filled.kind = "kValid" /\ eligible # {},
      before |-> filled.state,
      stage_id |-> stage_id,
      candidates |-> candidates,
      choice |-> Rand(filled.rand_gen, Len(candidates) + 2).value,
      after |-> InitChangeComputeLocationApply(search_task, filled.state, filled.rand_gen,
                                               FALSE).state]
FirstLocationIn(filled, eligible) ==
  FirstLocationOf(filled, eligible,
                  IF eligible = {} THEN 0 ELSE CHOOSE a \in eligible : \A b \in eligible : b <= a)
FirstLocationAfter(filled) == FirstLocationIn(filled, EligibleStages(filled.state))
FirstLocation(p) ==
  FirstLocationAfter(
    InitFillTileSizeApply(
      sketch_out_states[Rand(rand_gen[p], Len(sketch_out_states)).value + 1],
      Rand(rand_gen[p], Len(sketch_out_states)).rand_gen,
      init_params.max_innermost_split_factor))

\* a policy is about to take a sample in which InitChangeComputeLocation
\* draws a location
LocationDue(p) ==
  /\ init_pc[p] = "loop"
  /\ SampleMore(Len(init_out_states[p]), init_fail_ct[p], init_out_size[p])
  /\ ~init_params.disable_change_compute_location
  /\ FirstLocation(p).drawn

\* choices 1 and from 2 on: compute_root, compute_at the candidate
RootOrAttached(loc) ==
  /\ loc.choice \in 0..(Len(loc.candidates) + 1)
  /\ loc.choice = 1 =>
       /\ StageAt(loc.after, loc.stage_id).compute_at = "kRoot"
       /\ ~IsAttached(loc.after, loc.stage_id)
  /\ loc.choice >= 2 =>
       /\ StageAt(loc.after, loc.stage_id).compute_at = "kIter"
       /\ <<loc.stage_id, loc.candidates[loc.choice - 1][1],
            loc.candidates[loc.choice - 1][2]>> \in loc.after.stage_to_attach_iter

InlineDrawn(loc) ==
  loc.choice = 0 /\ ~HasReduceIter(StageAt(loc.before, loc.stage_id))

\* C33 as stated: InitChangeComputeLocation draws one of candidates.size() + 2
\* options (inline, compute_root, compute_at one candidate); when inline is
\* drawn for a stage without a reduction iterator the stage is inlined after
\* the rule.
C33_InlineDrawnInlines ==
  \A p \in Policies :
    LocationDue(p) =>
      /\ RootOrAttached(FirstLocation(p))
      /\ InlineDrawn(FirstLocation(p)) =>
           StageAt(FirstLocation(p).after, FirstLocation(p).stage_id).compute_at = "kInlined"

\* C33, amended: ... when inline is drawn for a stage without a reduction
\* iterator the stage is inlined after the rule exactly if it was attached
\* (had an entry in stage_to_attach_iter); a stage at root keeps its
\* location.
C33_InlineDrawnInlinesAttached ==
  \A p \in Policies :
    LocationDue(p) =>
      /\ RootOrAttached(FirstLocation(p))
      /\ InlineDrawn(FirstLocation(p)) =>
           /\ StageAt(FirstLocation(p).after, FirstLocation(p).stage_id).compute_at = "kInlined"
                <=> IsAttached(FirstLocation(p).before, FirstLocation(p).stage_id)
           /\ ~IsAttached(FirstLocation(p).before, FirstLocation(p).stage_id) =>
                StageAt(FirstLocation(p).after, FirstLocation(p).stage_id).compute_at
                  = StageAt(FirstLocation(p).before, FirstLocation(p).stage_id).compute_at
C33_Witness ==
  \E p \in Policies :
    /\ LocationDue(p)
    /\ InlineDrawn(FirstLocation(p))
    /\ Len(FirstLocation(p).candidates) >= 1

\* the generators the init rules are tried with
MaxGen == 63
Gens == 0..MaxGen

\* the sketches have been returned and no policy has drawn a number yet
SketchesFresh ==
  /\ sketch_pc = "returned"
  /\ sketch_out_states # <<>>
  /\ \A p \in Policies : init_calls[p] = <<>>

\* the state InitParallel is given: sketch k after InitFillTileSize and
\* InitChangeComputeLocation, the generator being g
BeforeParallel(k, g) ==
  ThenRule(InitFillTileSizeApply(sketch_out_states[k], g,
                                 init_params.max_innermost_split_factor),
           LAMBDA s, gen : InitChangeComputeLocationApply(
                             search_task, s, gen,
                             init_params.disable_change_compute_location))

\* the iterators InitParallel has fused and annotated parallel, read from
\* the steps it has added: `now` is the state before step j, `prev` the one
\* before step j - 1.  A run is the stage, the position of its first iterator,
\* the iterators, and the state they were taken from.
RECURSIVE ParallelRunsFrom(_, _, _, _)
ParallelRunsFrom(prev, now, steps, j) ==
  IF j > Len(steps) THEN {}
  ELSE LET step == steps[j]
           fused == /\ j > 1
                    /\ steps[j - 1].kind = "Fuse"
                    /\ steps[j - 1].stage_id = step.stage_id
                    /\ steps[j - 1].ids[1] = step.iter_id
           at == IF fused THEN prev ELSE now
           ids == IF fused THEN steps[j - 1].ids ELSE <<step.iter_id>>
           here == IF step.kind = "Annotation" /\ step.text = "parallel"
                     THEN {[at |-> at, stage_id |-> step.stage_id, first |-> ids[1],
                            iters |-> [k \in DOMAIN ids |->
                                         IterAt(StageAt(at, step.stage_id), ids[k])]]}
                     ELSE {}
       IN here \cup ParallelRunsFrom(now, ApplyStep(now, step), steps, j + 1)

ParallelRunsOf(before, after) ==
  ParallelRunsFrom(before, before,
                   SubSeq(after.transform_steps, Len(before.transform_steps) + 1,
                          Len(after.transform_steps)),
                   1)
ParallelRuns(before) ==
  ParallelRunsOf(before, InitParallelApply(search_task, before, 0).state)

\* the fused extent of the iterators InitParallel takes among the first n of
\* the stage
TakenExtent(state, stage_id, n) ==
  Product([k \in 1..n |->
             LET it == StageAt(state, stage_id).iters[k]
             IN IF it.iter_kind = "kSpatial" /\ it.annotation = "kNone"
                  THEN GetExtent(it) ELSE 1])

\* the stage is at root, or attached below iterators of fused extent 1 of a
\* stage of which the same holds
RECURSIVE UnderExtentOnePrefix(_, _)
UnderExtentOnePrefix(state, stage_id) ==
  \/ StageAt(state, stage_id).compute_at = "kRoot"
  \/ /\ StageAt(state, stage_id).compute_at = "kIter"
     /\ \E e \in state.stage_to_attach_iter :
          /\ e[1] = stage_id
          /\ TakenExtent(state, e[2], e[3] + 1) = 1
          /\ UnderExtentOnePrefix(state, e[2])

\* a run of un-annotated spatial iterators next to each other, of a stage
\* that is no placeholder and is at root or under an extent-1 prefix, that
\* does not go on after the fused extent has exceeded 16 x num_cores
RunOfSpatial(run) ==
  /\ StageAt(run.at, run.stage_id).op_type # "kPlaceholder"
  /\ UnderExtentOnePrefix(run.at, run.stage_id)
  /\ \A k \in DOMAIN run.iters :
       /\ run.iters[k] = IterAt(StageAt(run.at, run.stage_id), run.first + k - 1)
       /\ run.iters[k].iter_kind = "kSpatial"
       /\ run.iters[k].annotation = "kNone"
  /\ \A m \in 1..(Len(run.iters) - 1) :
       Product([k \in 1..m |-> GetExtent(run.iters[k])]) <= search_task.num_cores * 16

\* the run goes on in its stage after an iterator with attached stages, the
\* iterators taken before having the fused extent 1
RunGoesOn(run) ==
  /\ run.first >= 1
  /\ HasAttachedStages(run.at, run.stage_id, run.first - 1)
  /\ TakenExtent(run.at, run.stage_id, run.first) = 1

BeforeVectorization(k, g) ==
  ThenRule(BeforeParallel(k, g),
           LAMBDA s, gen : InitParallelApply(search_task, s, gen))

\* lines 552-560: the stages the rule looks at
VectorizationLooksAt(state, stage_id) ==
  LET stage == StageAt(state, stage_id)
  IN /\ stage.compute_at # "kInlined"
     /\ stage.op_type # "kPlaceholder"
     /\ ~HasAnnotatedIter(stage, "tensorize")

\* the number of innermost iterators of the stage the rule, started at the
\* stage with generator g, has fused into the vectorized one
NumVectorized(state, stage_id, g) ==
  LET after == VectorizationFrom(state, stage_id, g, init_params.max_vectorize_size).state
      n == Len(StageAt(state, stage_id).iters)
      m == Len(StageAt(after, stage_id).iters)
  IN IF IterAt(StageAt(after, stage_id), m - 1).annotation = "vectorize"
       THEN n - m + 1 ELSE 0

\* the stages of the samples with more than one fusible iterator
SeveralFusible ==
  {x \in UNION {{[state |-> BeforeVectorization(k, g).state, stage_id |-> stage_id,
                  n |-> NumFusible(BeforeVectorization(k, g).state, stage_id, 0, 1,
                                   init_params.max_vectorize_size)] :
                   stage_id \in StageIds(BeforeVectorization(k, g).state)} :
                  k \in DOMAIN sketch_out_states, g \in Gens} :
     x.n > 1 /\ VectorizationLooksAt(x.state, x.stage_id)}

\* C35: when the number n of fusible innermost iterators of a stage exceeds
\* one, the number of iterators fused and vectorized is between 1 and n, and
\* every number of 1 .. n, n itself too, is chosen for some value of the
\* generator.
C35_EveryPrefixLengthChosen ==
  SketchesFresh =>
    \A x \in SeveralFusible :
      /\ \A g \in Gens : NumVectorized(x.state, x.stage_id, g) \in 1..x.n
      /\ \A v \in 1..x.n : \E g \in Gens : NumVectorized(x.state, x.stage_id, g) = v

(***************************************************************************)
(* The annotations one sample gets from InitParallel, InitVectorization    *)
(* and InitUnroll.                                                         *)
(***************************************************************************)
\* the sample of sketch k with generator g after all the init rules
AfterInitRules(k, g) == ApplyInitRulesSeeded(search_task, init_params, sketch_out_states[k], g)

LoopAnnotations == {"parallel", "vectorize", "unroll"}

\* the steps from the j-th on that annotate an iterator which has an
\* annotation when the step is applied: [stage_id, name, had, gets]
RECURSIVE AnnotatedAgainFrom(_, _, _)
AnnotatedAgainFrom(now, steps, j) ==
  IF j > Len(steps) THEN {}
  ELSE LET step == steps[j]
           here == IF /\ step.kind = "Annotation"
                      /\ step.text \in LoopAnnotations
                      /\ IterAt(StageAt(now, step.stage_id), step.iter_id).annotation # "kNone"
                     THEN {[stage_id |-> step.stage_id,
                            name |-> IterAt(StageAt(now, step.stage_id), step.iter_id).name,
                            had |-> IterAt(StageAt(now, step.stage_id), step.iter_id).annotation,
                            gets |-> step.text]}
                     ELSE {}
       IN here \cup AnnotatedAgainFrom(ApplyStep(now, step), steps, j + 1)

\* ... among the steps the rules after InitChangeComputeLocation have added
AnnotatedAgain(k, g) ==
  AnnotatedAgainFrom(BeforeParallel(k, g).state,
                     SubSeq(AfterInitRules(k, g).state.transform_steps,
                            Len(BeforeParallel(k, g).state.transform_steps) + 1,
                            Len(AfterInitRules(k, g).state.transform_steps)),
                     1)

\* C36: no init rule annotates an iterator that has an annotation already:
\* in one sample every iterator gets at most one of parallel, vectorize and
\* unroll, the iterators named in always_unroll and always_unroll_inner too.
C36_NoIteratorAnnotatedAgain ==
  SketchesFresh =>
    \A g \in Gens, k \in DOMAIN sketch_out_states :
      AfterInitRules(k, g).kind = "kValid" => AnnotatedAgain(k, g) = {}

(***************************************************************************)
(* Search called with any num_measure_per_iter, a negative one too, and    *)
(* running on: the thread that is in the loop of lines 757-798 takes its   *)
(* next step, every call made from the loop (Update, SearchOneRound,       *)
(* PickStatesWithEpsGreedy, Measure) returning or ending the process.      *)
(***************************************************************************)
\* num_measure_per_iter is negative, zero or positive
PerIterValuesSigned == {-1, 0, 1}

InSearchLoop == pc \in {"loop_head", "measure"}
SearchLeft == pc \in {"returned", "fatal"}

\* the call moves on from where it is
SearchStep ==
  /\ InSearchLoop
  /\ pc' \in {"loop_head", "measure", "returned", "fatal"}
  /\ pc' # pc

NextSearchFair ==
  \/ \E n \in 0..MaxTrials, m \in PerIterValuesSigned : SearchNoMeasure(n, m)
  \/ \E n \in 0..MaxTrials, e \in EarlyStoppingValues, m \in PerIterValuesSigned :
       SearchBegin(n, e, m)
  \/ SearchOneRoundCrash
  \/ Round
  \/ LoopExit
  \/ MeasureBatch
  \/ SearchReturned

SpecSearchFair == Init /\ [][NextSearchFair]_vars /\ WF_pc(SearchStep)

\* a round that comes back to the head of the loop has counted at least one
\* measurement
RoundCounts == (pc = "measure" /\ pc' = "loop_head") => ct' >= ct + 1

\* C37: Search terminates for every n_trials, early_stopping and
\* num_measure_per_iter, zero and negative ones too, when the calls it makes
\* return: a call that is in the loop leaves it, and every round of the loop
\* either leaves the loop or increases ct by at least one.
C37_SearchTerminates == [][RoundCounts]_vars /\ (InSearchLoop ~> SearchLeft)

\* Search, called with a negative num_measure_per_iter, has come back from
\* the loop
C37_Witness ==
  /\ pc = "returned"
  /\ n_trials > 1
  /\ num_measure_per_iter_ < 0

====
